---- MODULE Spec2Model ----
(***************************************************************************)
(* rCore: per-CPU thread executor (crate/thread/src/processor.rs), the     *)
(* condition variable (kernel/src/sync/condvar.rs) and the process         *)
(* syscalls (kernel/src/syscall/proc.rs).                                  *)
(*                                                                         *)
(* The ThreadPool (thread_pool.rs) and thread::park_action / Thread::unpark*)
(* (std_thread.rs) are not among the sources; the pool_* operators and     *)
(* park_sleep are written from the design document (sections 4.2, 4.3,     *)
(* 4.6).                                                                   *)
(*                                                                         *)
(* Atomicity.  A step of the model is one critical section: one ThreadPool *)
(* operation (serialized by the pool lock), or one section run under a     *)
(* SpinNoIrqLock, or a CPU-private move of Processor.inner.proc done with  *)
(* interrupts disabled next to the pool operation it belongs to.           *)
(***************************************************************************)
EXTENDS Integers, Sequences, FiniteSets, TLC

\* ---------------------------------------------------------------- bounds
NumCpus == 2
NumThreads == 3
MaxN == 2
MaxCalls == 2
MaxOps == 3
Slice == 2
MaxTicks == 7
SemCount == 2
Items == 3
UsizeBits == 5
MaxBufLen == 6
MaxYields == 2
MaxIdleTicks == 2
MaxPortCalls == 3

Cpus == 1..NumCpus
Tids == 1..NumThreads
None == 0
All == -1
AnyChild == -1
ECHILD == -10

\* the parent's thread, and the child's pid (the tid of its first thread)
Parent == 1
ChildPid == 2
ChildTids == Tids \ {Parent}
ExitCodes == {1, 256}
I32Max == 2147483647
BLOCK_SIZE_LOG2 == 2
NumBlocks == 4
Cvs == {"A", "B"}
Orders == {<<"A", "B">>, <<"B", "A">>}
Sigs == {9}

VARIABLES
    \* ThreadPool: thread table and scheduler
    status,      \* Tid -> "Unused" | "Ready" | "Running" | "Sleeping" | "Exited"
    afterStop,   \* Tid -> status the thread takes at the next pool.stop
    ctxInPool,   \* Tid -> TRUE iff the thread table slot holds the Context
    runq,        \* scheduler ready queue, FIFO
    exitCode,    \* Tid -> exit code recorded by ThreadPool::exit (0: none)
    \* Processor (one per CPU)
    proc,        \* Cpu -> Tid held in ProcessorInner.proc, or None
    cpuPc,       \* Cpu -> "loop" | "thread" | "stop" | "idle"
    intr,        \* Cpu -> interrupts enabled
    \* threads
    pc,          \* Tid -> position in its code
    \* Mutex<T> + Condvar
    mutex,       \* holder of the waited-on mutex, or None
    wqLock,      \* holder of Condvar.wait_queue's SpinNoIrqLock, or None
    waitq,       \* Condvar.wait_queue: handles (Tids) in FIFO order
    avail,       \* the predicate the waiters wait for: items available
    \* notify_*: locals of the call and a record of what it did
    nArg,        \* Tid -> n of notify_n (1: notify_one, All: notify_all)
    nCount,      \* Tid -> count
    nStartQ,     \* Tid -> wait queue when the call started
    nWoken,      \* Tid -> handles unparked by the call, in order
    \* processes: one parent (thread Parent) and its child process
    threads,     \* Process.threads of the child: Vec<Tid>
    exitCodeMap, \* Process.child_exit_code of the parent: set of <<pid, code>>
    isLast,      \* Tid -> `exit` of sys_exit: the caller was the last thread
    exitArg,     \* Tid -> exit_code / sig argument of the call in progress
    w4Target,    \* target of the parent's sys_wait4: AnyChild or a pid
    w4Ret,       \* what the parent's sys_wait4 calls returned: <<pid, wstatus>>
    nCalls,      \* syscalls the parent has made after the fork
    \* several condvars used through wait_any; handles carry the incarnation
    cvq,         \* Cv -> wait_queue: handles <<Tid, incarnation>>, FIFO
    cvLock,      \* Cv -> holder of the wait_queue lock, or None
    cvFlags,     \* Cv -> interrupt flag saved by the holder's guard
    gen,         \* Tid -> times the table slot has been allocated
    order,       \* Tid -> the condvars the thread passes to wait_any
    ops,         \* calls the driver thread has made
    log,         \* the driver's calls: "clone", or what the notify found
    \* scheduler time slices
    slice,       \* Tid -> ticks left of the thread's slice
    ticks,       \* timer ticks delivered so far
    ranOrder,    \* the Tids pool.run has returned, in order
    \* IPI broadcast; an event is named by the thread whose call made it
    evq,         \* Cpu -> pending-event list
    cur,         \* Cpu -> events the IPI handler has taken and not finished
    ipiPend,     \* Cpu -> an IPIFuncCall interrupt is pending
    ipiRet,      \* Cpu -> what the IPI handler interrupted
    sem,         \* caller -> count of its done_semaphore
    ipiWait,     \* caller -> argument `wait`
    ipiK,        \* caller -> CPU the foreach closure is at
    cpu_count,   \* caller -> cpu_count
    enqLog,      \* Cpu -> events in the order notify_event got them
    ranLog,      \* Cpu -> function calls made on the CPU, in order
    \* a semaphore over the mutex, the condvar and `avail` as its count
    semInit,     \* the count the semaphore was created with
    \* a capacity-1 channel over the mutex, the condvar and `avail`
    chanItem,    \* the item in the channel's slot
    nSent,       \* items the producer has put
    recvd,       \* items the consumer has taken, in order
    \* CPU affinity
    affinity,    \* Tid -> the CPU the thread is bound to, or None
    ranOn,       \* Tid -> CPUs whose pool.run has returned the thread
    \* byte-granular access to a block device
    dev,         \* the device's bytes
    buf,         \* the caller's buffer
    devOff,      \* argument `offset`
    devOp,       \* "read" | "write"
    devRet,      \* <<"none">> before the call, then <<"panic">> or <<"Some", n>>
    build,       \* "debug" | "release": overflow checks on or off
    \* what a thread has asked of the pool since it was last switched in
    called,      \* Tid -> "none" | "park" | "exit"
    \* clear-child-tid and the futex table
    clear_child_tid, \* Tid -> Thread.clear_child_tid (0: not set)
    word,        \* address -> the u32 at the address
    futexWake,   \* address -> notify_one calls made on the futex of the address
    \* Processor::yield_now and the interrupt flag
    flags,       \* Tid -> `flags` of the yield_now the thread is in, or "none"
    atCall,      \* Tid -> interrupt state when the thread last entered yield_now
    atRet,       \* Tid -> interrupt state when that yield_now returned, or "none"
    viaTick,     \* Tid -> that yield_now was called by Processor::tick
    nYield,      \* Tid -> yield_now calls the thread's program has made
    \* timer interrupts on idle CPUs
    idleTicks,   \* Cpu -> Processor::tick calls made while the CPU was idle
    \* preemption next to a voluntary yield
    tickAt,      \* Tid -> "park" | "exit": the timer has preempted the thread between
                 \* that call and its yield_now; "none" otherwise
    \* get_ephemeral_port
    EPHEMERAL_PORT,  \* the function's static mut u16
    portPc,      \* Cpu -> where the call made on that CPU stands
    portRet,     \* the values returned so far, in order of return
    portOverlap, \* a call has begun while another was under way
    nPortCalls   \* calls begun

poolVars == <<status, afterStop, ctxInPool, runq, exitCode>>
cpuVars == <<proc, cpuPc, intr>>
cvVars == <<mutex, wqLock, waitq, avail>>
notifyVars == <<nArg, nCount, nStartQ, nWoken>>
procVars == <<threads, exitCodeMap, isLast, exitArg, w4Target, w4Ret, nCalls>>
anyVars == <<cvq, cvLock, cvFlags, gen, order, ops, log>>
rrVars == <<slice, ticks, ranOrder>>
ipiVars == <<evq, cur, ipiPend, ipiRet, sem, ipiWait, ipiK, cpu_count,
            enqLog, ranLog>>
semVars == <<semInit>>
chanVars == <<chanItem, nSent, recvd>>
affVars == <<affinity, ranOn>>
devVars == <<dev, buf, devOff, devOp, devRet, build>>
stopVars == <<called>>
futexVars == <<clear_child_tid, word, futexWake>>
irqVars == <<flags, atCall, atRet, viaTick, nYield>>
tickVars == <<idleTicks>>
preVars == <<tickAt>>
portVars == <<EPHEMERAL_PORT, portPc, portRet, portOverlap, nPortCalls>>
newVars == <<stopVars, futexVars, irqVars, tickVars, preVars, portVars>>
moreVars == <<affVars, devVars, newVars>>
moreNotDev == <<affVars, newVars>>
moreNotStop == <<affVars, devVars, futexVars, irqVars, tickVars, preVars, portVars>>
moreNotFutex == <<affVars, devVars, stopVars, irqVars, tickVars, preVars, portVars>>
moreNotIrq == <<affVars, devVars, stopVars, futexVars, tickVars, preVars, portVars>>
moreNotTick == <<affVars, devVars, stopVars, futexVars, irqVars, preVars, portVars>>
moreNotPre == <<affVars, devVars, stopVars, futexVars, irqVars, tickVars, portVars>>
moreNotPort == <<affVars, devVars, stopVars, futexVars, irqVars, tickVars, preVars>>
extVars == <<anyVars, rrVars, ipiVars, semVars, chanVars, moreVars>>
extNotAny == <<rrVars, ipiVars, semVars, chanVars, moreVars>>
extNotRR == <<anyVars, ipiVars, semVars, chanVars, moreVars>>
extNotIpi == <<anyVars, rrVars, semVars, chanVars, moreVars>>
extNotChan == <<anyVars, rrVars, ipiVars, semVars, moreVars>>
extOld == <<anyVars, rrVars, ipiVars, semVars, chanVars>>
vars == <<status, afterStop, ctxInPool, runq, exitCode, proc, cpuPc, intr, pc,
          mutex, wqLock, waitq, avail, nArg, nCount, nStartQ, nWoken,
          threads, exitCodeMap, isLast, exitArg, w4Target, w4Ret, nCalls,
          cvq, cvLock, cvFlags, gen, order, ops, log,
          slice, ticks, ranOrder,
          evq, cur, ipiPend, ipiRet, sem, ipiWait, ipiK, cpu_count,
          enqLog, ranLog, semInit, chanItem, nSent, recvd,
          affinity, ranOn, dev, buf, devOff, devOp, devRet, build,
          called, clear_child_tid, word, futexWake,
          flags, atCall, atRet, viaTick, nYield, idleTicks, tickAt,
          EPHEMERAL_PORT, portPc, portRet, portOverlap, nPortCalls>>

\* ------------------------------------------------------------ helpers
Min(a, b) == IF a < b THEN a ELSE b

Range(s) == {s[i] : i \in 1..Len(s)}

RECURSIVE Remove(_, _)
Remove(s, x) ==
    IF s = <<>> THEN <<>>
    ELSE IF Head(s) = x THEN Remove(Tail(s), x)
    ELSE <<Head(s)>> \o Remove(Tail(s), x)

\* The thread is executing on some CPU (switch_to has entered it and it
\* has not switched back to the loop context).
OnCpu(t) == \E c \in Cpus : proc[c] = t /\ cpuPc[c] = "thread"

CpuOf(t) == CHOOSE c \in Cpus : proc[c] = t

\* ------------------------------------------------------- ThreadPool
\* ThreadPool::run(cpu_id): the policy's pick, FIFO.
pool_run(t) ==
    /\ runq # <<>>
    /\ t = Head(runq)
    /\ runq' = Tail(runq)
    /\ status' = [status EXCEPT ![t] = "Running"]
    /\ ctxInPool' = [ctxInPool EXCEPT ![t] = FALSE]
    /\ UNCHANGED <<afterStop, exitCode>>

\* ThreadPool::stop(tid, context)
pool_stop(t) ==
    /\ status' = [status EXCEPT ![t] = afterStop[t]]
    /\ afterStop' = [afterStop EXCEPT ![t] = "Ready"]
    /\ ctxInPool' = [ctxInPool EXCEPT ![t] = TRUE]
    /\ runq' = IF afterStop[t] = "Ready" THEN Append(runq, t) ELSE runq
    /\ UNCHANGED exitCode

\* ThreadPool::sleep(tid)
pool_sleep(t) ==
    /\ IF status[t] = "Running"
       THEN /\ afterStop' = [afterStop EXCEPT ![t] = "Sleeping"]
            /\ UNCHANGED <<status, runq>>
       ELSE IF status[t] = "Ready"
       THEN /\ status' = [status EXCEPT ![t] = "Sleeping"]
            /\ runq' = Remove(runq, t)
            /\ UNCHANGED afterStop
       ELSE UNCHANGED <<status, afterStop, runq>>
    /\ UNCHANGED <<ctxInPool, exitCode>>

\* ThreadPool::wakeup(tid) that pushes the tid to the ready queue whenever
\* the thread is not running, without looking at its status first.
pool_wakeup_push_always(t) ==
    /\ IF status[t] \in {"Sleeping", "Ready"}
       THEN /\ status' = [status EXCEPT ![t] = "Ready"]
            /\ runq' = Append(runq, t)
            /\ UNCHANGED afterStop
       ELSE IF status[t] = "Running" /\ afterStop[t] = "Sleeping"
       THEN /\ afterStop' = [afterStop EXCEPT ![t] = "Ready"]
            /\ UNCHANGED <<status, runq>>
       ELSE UNCHANGED <<status, afterStop, runq>>
    /\ UNCHANGED <<ctxInPool, exitCode>>

\* ThreadPool::wakeup(tid)
pool_wakeup(t) ==
    /\ IF status[t] = "Sleeping"
       THEN /\ status' = [status EXCEPT ![t] = "Ready"]
            /\ runq' = Append(runq, t)
            /\ UNCHANGED afterStop
       ELSE IF status[t] = "Running" /\ afterStop[t] = "Sleeping"
       THEN /\ afterStop' = [afterStop EXCEPT ![t] = "Ready"]
            /\ UNCHANGED <<status, runq>>
       ELSE UNCHANGED <<status, afterStop, runq>>
    /\ UNCHANGED <<ctxInPool, exitCode>>

\* ThreadPool::exit(tid, code): on a Running thread the transition is
\* deferred to pool.stop; on an Exited or unknown tid nothing happens.
pool_exit(t, code) ==
    /\ IF status[t] = "Running"
       THEN /\ afterStop' = [afterStop EXCEPT ![t] = "Exited"]
            /\ exitCode' = [exitCode EXCEPT ![t] = code]
            /\ UNCHANGED <<status, runq>>
       ELSE IF status[t] \in {"Ready", "Sleeping"}
       THEN /\ status' = [status EXCEPT ![t] = "Exited"]
            /\ exitCode' = [exitCode EXCEPT ![t] = code]
            /\ runq' = Remove(runq, t)
            /\ UNCHANGED afterStop
       ELSE UNCHANGED <<status, afterStop, runq, exitCode>>
    /\ UNCHANGED ctxInPool

\* ThreadPool::exit(tid, code) for each tid of ts (the loops of
\* sys_exit_group and sys_kill)
pool_exit_all(ts, code) ==
    /\ status' = [u \in Tids |->
            IF u \in ts /\ status[u] \in {"Ready", "Sleeping"} THEN "Exited" ELSE status[u]]
    /\ afterStop' = [u \in Tids |->
            IF u \in ts /\ status[u] = "Running" THEN "Exited" ELSE afterStop[u]]
    /\ exitCode' = [u \in Tids |->
            IF u \in ts /\ status[u] \in {"Ready", "Running", "Sleeping"}
            THEN code ELSE exitCode[u]]
    /\ runq' = SelectSeq(runq, LAMBDA u : u \notin ts)
    /\ UNCHANGED ctxInPool

\* ThreadPool::add(thread): a new thread, Ready
pool_add(t) ==
    /\ status' = [status EXCEPT ![t] = "Ready"]
    /\ ctxInPool' = [ctxInPool EXCEPT ![t] = TRUE]
    /\ runq' = Append(runq, t)
    /\ afterStop' = [afterStop EXCEPT ![t] = "Ready"]
    /\ exitCode' = [exitCode EXCEPT ![t] = 0]

\* ------------------------------------------------------- Processor
\* Processor::yield_now on CPU c: disable_and_store, switch_to the loop
\* context.  The caller continues (restore(flags)) when it is run again.
yield_now(c) ==
    /\ intr' = [intr EXCEPT ![c] = FALSE]
    /\ cpuPc' = [cpuPc EXCEPT ![c] = "stop"]
    /\ UNCHANGED proc

\* Processor::run without `inner.proc = Some(proc)`: the pair the pool
\* returned is not stored in the slot.
RunThread_no_store(c) ==
    /\ cpuPc[c] = "loop"
    /\ \E t \in Tids : pool_run(t)
    /\ cpuPc' = [cpuPc EXCEPT ![c] = "thread"]
    /\ intr' = [intr EXCEPT ![c] = TRUE]
    /\ UNCHANGED <<proc, pc, cvVars, notifyVars, procVars, extVars>>

\* Processor::run, lines 61-68: pool.run returned Some(proc); store it in
\* the slot and switch to the thread, which resumes with its own flags.
RunThread(c) ==
    /\ cpuPc[c] = "loop"
    /\ \E t \in Tids :
        /\ pool_run(t)
        /\ proc' = [proc EXCEPT ![c] = t]
    /\ cpuPc' = [cpuPc EXCEPT ![c] = "thread"]
    /\ intr' = [intr EXCEPT ![c] = TRUE]
    /\ UNCHANGED <<pc, cvVars, notifyVars, procVars, extVars>>

\* Processor::run, lines 72-76: pool.run returned None; enable_and_wfi.
RunIdle(c) ==
    /\ cpuPc[c] = "loop"
    /\ runq = <<>>
    /\ cpuPc' = [cpuPc EXCEPT ![c] = "idle"]
    /\ intr' = [intr EXCEPT ![c] = TRUE]
    /\ UNCHANGED <<poolVars, proc, pc, cvVars, notifyVars, procVars, extVars>>

\* Processor::run, lines 77-80: an interrupt ends the wait; disable_and_store.
IdleWake(c) ==
    /\ cpuPc[c] = "idle"
    /\ cpuPc' = [cpuPc EXCEPT ![c] = "loop"]
    /\ intr' = [intr EXCEPT ![c] = FALSE]
    /\ UNCHANGED <<poolVars, proc, pc, cvVars, notifyVars, procVars, extVars>>

\* StopThread with `inner.proc.as_ref()` in place of `inner.proc.take()`:
\* the slot keeps the pair it has handed back.
StopThread_keep_slot(c) ==
    /\ cpuPc[c] = "stop"
    /\ pool_stop(proc[c])
    /\ cpuPc' = [cpuPc EXCEPT ![c] = "loop"]
    /\ UNCHANGED <<proc, intr, pc, cvVars, notifyVars, procVars, extVars>>

\* StopThread that takes the pair and drops it without calling pool.stop.
StopThread_drop_context(c) ==
    /\ cpuPc[c] = "stop"
    /\ proc' = [proc EXCEPT ![c] = None]
    /\ cpuPc' = [cpuPc EXCEPT ![c] = "loop"]
    /\ UNCHANGED <<poolVars, intr, pc, cvVars, notifyVars, procVars, extVars>>

\* Processor::run, lines 69-71: switch_to returned; take the pair out of
\* the slot and hand the context back with pool.stop.
StopThread(c) ==
    /\ cpuPc[c] = "stop"
    /\ pool_stop(proc[c])
    /\ proc' = [proc EXCEPT ![c] = None]
    /\ cpuPc' = [cpuPc EXCEPT ![c] = "loop"]
    /\ UNCHANGED <<intr, pc, cvVars, notifyVars, procVars, extVars>>

\* Processor::tick: the timer interrupt arrives while a thread runs with
\* interrupts enabled and pool.tick asks for a reschedule.
Tick(c) ==
    /\ cpuPc[c] = "thread"
    /\ intr[c]
    /\ yield_now(c)
    /\ UNCHANGED <<poolVars, pc, cvVars, notifyVars, procVars, extVars>>

\* ------------------------------------------------------ thread steps
Goto(t, from, to) ==
    /\ OnCpu(t)
    /\ pc[t] = from
    /\ pc' = [pc EXCEPT ![t] = to]

\* ---- waiter: lock; while avail = 0 { guard = cv.wait(guard) }; take; unlock
WLock(t) ==
    /\ OnCpu(t)
    /\ pc[t] = "w_lock"
    /\ mutex = None
    /\ mutex' = t
    /\ IF avail > 0
       THEN /\ avail' = avail - 1
            /\ pc' = [pc EXCEPT ![t] = "w_unlock"]
       ELSE /\ pc' = [pc EXCEPT ![t] = "wait_enq"]
            /\ UNCHANGED avail
    /\ UNCHANGED <<poolVars, cpuVars, wqLock, waitq, notifyVars, procVars, extVars>>

\* wait has returned the guard: test the predicate again
WCheck(t) ==
    /\ OnCpu(t)
    /\ pc[t] = "w_check"
    /\ IF avail > 0
       THEN /\ avail' = avail - 1
            /\ pc' = [pc EXCEPT ![t] = "w_unlock"]
       ELSE /\ pc' = [pc EXCEPT ![t] = "wait_enq"]
            /\ UNCHANGED avail
    /\ UNCHANGED <<poolVars, cpuVars, mutex, wqLock, waitq, notifyVars, procVars, extVars>>

WUnlock(t) ==
    /\ Goto(t, "w_unlock", "exit")
    /\ mutex' = None
    /\ nStartQ' = [nStartQ EXCEPT ![t] = <<>>]
    /\ nWoken' = [nWoken EXCEPT ![t] = <<>>]
    /\ UNCHANGED <<poolVars, cpuVars, wqLock, waitq, avail, nArg, nCount, procVars, extVars>>

\* ---- the steps of Condvar::wait
\* add_to_wait_queue that lets the guard go when it returns.
add_to_wait_queue_unlocked(t, to) ==
    /\ Goto(t, "wait_enq", to)
    /\ wqLock = None
    /\ waitq' = Append(waitq, t)
    /\ UNCHANGED <<poolVars, cpuVars, mutex, wqLock, avail, notifyVars, procVars, extVars>>

\* add_to_wait_queue: wait_queue.lock() (SpinNoIrq: interrupts off),
\* push_back(current), return the guard.
add_to_wait_queue(t, to) ==
    /\ Goto(t, "wait_enq", to)
    /\ wqLock = None
    /\ wqLock' = t
    /\ waitq' = Append(waitq, t)
    /\ intr' = [intr EXCEPT ![CpuOf(t)] = FALSE]
    /\ UNCHANGED <<poolVars, proc, cpuPc, mutex, avail, notifyVars, procVars, extVars>>

\* thread::park_action, first half: manager.sleep(current)
park_sleep(t, to) ==
    /\ Goto(t, "wait_sleep", to)
    /\ pool_sleep(t)
    /\ UNCHANGED <<cpuVars, cvVars, notifyVars, procVars, extVars>>

\* the closure of wait: drop(lock) restores the interrupt flag
wait_drop_lock(t, to) ==
    /\ Goto(t, "wait_drop_lock", to)
    /\ wqLock' = IF wqLock = t THEN None ELSE wqLock
    /\ intr' = [intr EXCEPT ![CpuOf(t)] = TRUE]
    /\ UNCHANGED <<poolVars, proc, cpuPc, mutex, waitq, avail, notifyVars, procVars, extVars>>

\* the closure of wait: drop(guard)
wait_drop_guard(t, to) ==
    /\ Goto(t, "wait_drop_guard", to)
    /\ mutex' = IF mutex = t THEN None ELSE mutex
    /\ UNCHANGED <<poolVars, cpuVars, wqLock, waitq, avail, notifyVars, procVars, extVars>>

\* thread::park_action, second half: processor().yield_now()
park_yield(t, to) ==
    /\ Goto(t, "wait_yield", to)
    /\ yield_now(CpuOf(t))
    /\ UNCHANGED <<poolVars, cvVars, notifyVars, procVars, extVars>>

\* wait that returns without taking the mutex again.
wait_relock_skip(t, to) ==
    /\ Goto(t, "wait_relock", to)
    /\ UNCHANGED <<poolVars, cpuVars, cvVars, notifyVars, procVars, extVars>>

\* wait, line 77: mutex.lock()
wait_relock(t, to) ==
    /\ Goto(t, "wait_relock", to)
    /\ mutex = None
    /\ mutex' = t
    /\ UNCHANGED <<poolVars, cpuVars, wqLock, waitq, avail, notifyVars, procVars, extVars>>

\* wait with `closure(); thread::park()` in place of park_action(closure):
\* the locks are dropped before the caller is marked Sleeping.
Wait_park_after_release(t) ==
    \/ add_to_wait_queue(t, "wait_drop_lock")
    \/ wait_drop_lock(t, "wait_drop_guard")
    \/ wait_drop_guard(t, "wait_sleep")
    \/ park_sleep(t, "wait_yield")
    \/ park_yield(t, "wait_relock")
    \/ wait_relock(t, "w_check")

\* Condvar::wait
Wait(t) ==
    \/ add_to_wait_queue(t, "wait_sleep")
    \/ park_sleep(t, "wait_drop_lock")
    \/ wait_drop_lock(t, "wait_drop_guard")
    \/ wait_drop_guard(t, "wait_yield")
    \/ park_yield(t, "wait_relock")
    \/ wait_relock(t, "w_check")

\* ---- notifier: lock; avail += 1; notify_*; unlock
NSet(t) ==
    /\ OnCpu(t)
    /\ pc[t] = "n_lock"
    /\ mutex = None
    /\ mutex' = t
    /\ avail' = avail + 1
    /\ \E kind \in {"notify_one", "notify_all", "notify_n"} :
       \E n \in 0..MaxN :
        /\ kind = "notify_one" => n = 1
        /\ kind = "notify_all" => n = 0
        /\ pc' = [pc EXCEPT ![t] = kind]
        /\ nArg' = [nArg EXCEPT ![t] = IF kind = "notify_all" THEN All ELSE n]
    /\ nCount' = [nCount EXCEPT ![t] = 0]
    /\ nStartQ' = [nStartQ EXCEPT ![t] = waitq]
    /\ nWoken' = [nWoken EXCEPT ![t] = <<>>]
    /\ UNCHANGED <<poolVars, cpuVars, wqLock, waitq, procVars, extVars>>

\* pop_front without the unpark.
PopNoUnpark(t) ==
    /\ wqLock = None
    /\ waitq # <<>>
    /\ waitq' = Tail(waitq)
    /\ nWoken' = [nWoken EXCEPT ![t] = Append(@, Head(waitq))]
    /\ UNCHANGED <<poolVars, cpuVars, mutex, wqLock, avail, nArg, nStartQ>>

\* front() in place of pop_front(): the handle stays queued.
PeekUnpark(t) ==
    /\ wqLock = None
    /\ waitq # <<>>
    /\ pool_wakeup(Head(waitq))
    /\ nWoken' = [nWoken EXCEPT ![t] = Append(@, Head(waitq))]
    /\ UNCHANGED <<cpuVars, cvVars, nArg, nStartQ>>

\* pop_back() in place of pop_front().
PopBackUnpark(t) ==
    /\ wqLock = None
    /\ waitq # <<>>
    /\ waitq' = SubSeq(waitq, 1, Len(waitq) - 1)
    /\ pool_wakeup(waitq[Len(waitq)])
    /\ nWoken' = [nWoken EXCEPT ![t] = Append(@, waitq[Len(waitq)])]
    /\ UNCHANGED <<cpuVars, mutex, wqLock, avail, nArg, nStartQ>>

\* `wait_queue.lock().pop_front()` followed by `t.unpark()`: the guard is
\* a temporary of the scrutinee and lives to the end of the statement.
PopUnpark(t) ==
    /\ wqLock = None
    /\ waitq # <<>>
    /\ waitq' = Tail(waitq)
    /\ pool_wakeup(Head(waitq))
    /\ nWoken' = [nWoken EXCEPT ![t] = Append(@, Head(waitq))]
    /\ UNCHANGED <<cpuVars, mutex, wqLock, avail, nArg, nStartQ>>

PopNone(t) ==
    /\ wqLock = None
    /\ waitq = <<>>
    /\ UNCHANGED <<poolVars, cpuVars, cvVars, nArg, nStartQ, nWoken>>

\* Condvar::notify_one
notify_one(t, to) ==
    /\ Goto(t, "notify_one", to)
    /\ UNCHANGED <<procVars, extVars>>
    /\ \/ PopUnpark(t) /\ nCount' = [nCount EXCEPT ![t] = 1]
       \/ PopNone(t) /\ UNCHANGED nCount

\* notify_all with `if let` in place of `while let`: one pop at most.
notify_all_if_let(t, to) ==
    /\ Goto(t, "notify_all", to)
    /\ UNCHANGED <<procVars, extVars>>
    /\ \/ PopUnpark(t) /\ nCount' = [nCount EXCEPT ![t] = @ + 1]
       \/ PopNone(t) /\ UNCHANGED nCount

\* Condvar::notify_all: one iteration of the while-let
notify_all(t, to) ==
    /\ OnCpu(t)
    /\ pc[t] = "notify_all"
    /\ UNCHANGED <<procVars, extVars>>
    /\ \/ PopUnpark(t) /\ nCount' = [nCount EXCEPT ![t] = @ + 1] /\ UNCHANGED pc
       \/ PopNone(t) /\ UNCHANGED nCount /\ pc' = [pc EXCEPT ![t] = to]

\* Condvar::notify_n: the loop test, or one iteration
notify_n(t, to) ==
    /\ OnCpu(t)
    /\ pc[t] = "notify_n"
    /\ UNCHANGED <<procVars, extVars>>
    /\ IF nCount[t] < nArg[t]
       THEN \/ PopUnpark(t) /\ nCount' = [nCount EXCEPT ![t] = @ + 1] /\ UNCHANGED pc
            \/ PopNone(t) /\ UNCHANGED nCount /\ pc' = [pc EXCEPT ![t] = to]
       ELSE /\ pc' = [pc EXCEPT ![t] = to]
            /\ UNCHANGED <<poolVars, cpuVars, cvVars, notifyVars>>

NUnlock(t) ==
    /\ Goto(t, "n_unlock", "exit")
    /\ mutex' = None
    /\ nStartQ' = [nStartQ EXCEPT ![t] = <<>>]
    /\ nWoken' = [nWoken EXCEPT ![t] = <<>>]
    /\ UNCHANGED <<poolVars, cpuVars, wqLock, waitq, avail, nArg, nCount, procVars, extVars>>

\* ---- the thread ends: sys_exit, lines 269-270
Exit(t) ==
    /\ Goto(t, "exit", "unreachable")
    /\ pool_exit(t, exitArg[t])
    /\ yield_now(CpuOf(t))
    /\ UNCHANGED <<cvVars, notifyVars, procVars, extVars>>

\* --------------------------------------------------- specification
InitCv ==
    /\ status = [t \in Tids |-> "Ready"]
    /\ afterStop = [t \in Tids |-> "Ready"]
    /\ ctxInPool = [t \in Tids |-> TRUE]
    /\ runq = [i \in 1..NumThreads |-> i]
    /\ exitCode = [t \in Tids |-> 0]
    /\ proc = [c \in Cpus |-> None]
    /\ cpuPc = [c \in Cpus |-> "loop"]
    /\ intr = [c \in Cpus |-> FALSE]
    /\ \E k \in 1..(NumThreads - 1) :
        pc = [t \in Tids |-> IF t <= k THEN "w_lock" ELSE "n_lock"]
    /\ mutex = None
    /\ wqLock = None
    /\ waitq = <<>>
    /\ avail = 0
    /\ nArg = [t \in Tids |-> 0]
    /\ nCount = [t \in Tids |-> 0]
    /\ nStartQ = [t \in Tids |-> <<>>]
    /\ nWoken = [t \in Tids |-> <<>>]

\* no thread calls wait_any
InitAny0 ==
    /\ cvq = [cv \in Cvs |-> <<>>]
    /\ cvLock = [cv \in Cvs |-> None]
    /\ cvFlags = [cv \in Cvs |-> FALSE]
    /\ gen = [t \in Tids |-> 0]
    /\ order = [t \in Tids |-> <<>>]
    /\ ops = 0
    /\ log = <<>>

\* no slice accounting: pool.tick is left to choose
InitRR0 ==
    /\ slice = [t \in Tids |-> Slice]
    /\ ticks = 0
    /\ ranOrder = <<>>

\* no IPI broadcast
InitIpi0 ==
    /\ evq = [c \in Cpus |-> <<>>]
    /\ cur = [c \in Cpus |-> <<>>]
    /\ ipiPend = [c \in Cpus |-> FALSE]
    /\ ipiRet = [c \in Cpus |-> "thread"]
    /\ sem = [t \in Tids |-> 0]
    /\ ipiWait = [t \in Tids |-> FALSE]
    /\ ipiK = [t \in Tids |-> 1]
    /\ cpu_count = [t \in Tids |-> 0]
    /\ enqLog = [c \in Cpus |-> <<>>]
    /\ ranLog = [c \in Cpus |-> <<>>]

\* no semaphore
InitSem0 == semInit = 0

\* no channel
InitChan0 ==
    /\ chanItem = 0
    /\ nSent = 0
    /\ recvd = <<>>

\* no thread is bound to a CPU
InitAff0 ==
    /\ affinity = [t \in Tids |-> None]
    /\ ranOn = [t \in Tids |-> {}]

\* no device call
InitDev0 ==
    /\ dev = <<>>
    /\ buf = <<>>
    /\ devOff = 0
    /\ devOp = "read"
    /\ devRet = <<"none">>
    /\ build = "release"

\* no call is recorded
InitStop0 == called = [t \in Tids |-> "none"]

\* no thread has a clear-child-tid address
InitFutex0 ==
    /\ clear_child_tid = [t \in Tids |-> 0]
    /\ word = [a \in Tids |-> 0]
    /\ futexWake = [a \in Tids |-> 0]

\* no thread is inside yield_now
InitIrq0 ==
    /\ flags = [t \in Tids |-> "none"]
    /\ atCall = [t \in Tids |-> "none"]
    /\ atRet = [t \in Tids |-> "none"]
    /\ viaTick = [t \in Tids |-> FALSE]
    /\ nYield = [t \in Tids |-> 0]

\* no tick has come on an idle CPU
InitTick0 == idleTicks = [c \in Cpus |-> 0]

\* no thread has yielded
InitPre0 == tickAt = [t \in Tids |-> "none"]

\* `static mut EPHEMERAL_PORT: u16 = 0`, no call made
InitPort0 ==
    /\ EPHEMERAL_PORT = 0
    /\ portPc = [c \in Cpus |-> "out"]
    /\ portRet = <<>>
    /\ portOverlap = FALSE
    /\ nPortCalls = 0

InitNew0 == InitStop0 /\ InitFutex0 /\ InitIrq0 /\ InitTick0 /\ InitPre0 /\ InitPort0

InitMore0 == InitAff0 /\ InitDev0 /\ InitNew0

InitOld0 == InitAny0 /\ InitRR0 /\ InitIpi0 /\ InitSem0 /\ InitChan0

InitExt0 == InitOld0 /\ InitMore0

\* the threads run the condvar programs; no process is involved
InitProc0 ==
    /\ threads = <<>>
    /\ exitCodeMap = {}
    /\ isLast = [t \in Tids |-> FALSE]
    /\ exitArg = [t \in Tids |-> 0]
    /\ w4Target = AnyChild
    /\ w4Ret = <<>>
    /\ nCalls = 0

CpuStep(c) ==
    \/ RunThread(c)
    \/ RunIdle(c)
    \/ IdleWake(c)
    \/ StopThread(c)
    \/ Tick(c)

ThreadStep(t) ==
    \/ WLock(t)
    \/ WCheck(t)
    \/ WUnlock(t)
    \/ Wait(t)
    \/ NSet(t)
    \/ notify_one(t, "n_unlock")
    \/ notify_all(t, "n_unlock")
    \/ notify_n(t, "n_unlock")
    \/ NUnlock(t)
    \/ Exit(t)

Next ==
    \/ \E c \in Cpus : CpuStep(c)
    \/ \E t \in Tids : ThreadStep(t)

Init == InitCv /\ InitProc0 /\ InitExt0

Spec == Init /\ [][Next]_vars

\* ------------------------------------------------- process syscalls
\* A Process is alive while one of its Threads is: children / PROCESSES
\* hold Weak references that upgrade as long as a Thread owns the Arc.
ProcAlive == \E u \in ChildTids : status[u] \in {"Ready", "Running", "Sleeping"}

\* child_exit_code.insert(pid, code)
Insert(map, pid, code) == {e \in map : e[1] # pid} \cup {<<pid, code>>}

\* `parent.child_exit_code.insert(pid, code); parent.child_exit.notify_one()`
\* under the parent's process lock
NotifyParent(t, code) ==
    /\ exitCodeMap' = Insert(exitCodeMap, ChildPid, code)
    /\ \/ PopUnpark(t)
       \/ PopNone(t)
    /\ UNCHANGED <<nCount, threads, isLast, exitArg, w4Target, w4Ret, nCalls, extVars>>

\* sys_fork: the child's first thread is added to the pool
sys_fork(t) ==
    /\ Goto(t, "p_fork", "p_next")
    /\ pool_add(ChildPid)
    /\ threads' = <<ChildPid>>
    /\ UNCHANGED <<cpuVars, cvVars, notifyVars, exitCodeMap, isLast, exitArg,
                   w4Target, w4Ret, nCalls, extVars>>

\* sys_clone (flags 0x7d0f00): one more thread in the caller's process
sys_clone(t) ==
    /\ OnCpu(t)
    /\ pc[t] = "c_main"
    /\ \E u \in ChildTids :
        /\ status[u] = "Unused"
        /\ \A v \in ChildTids : status[v] = "Unused" => u <= v
        /\ pool_add(u)
        /\ threads' = Append(threads, u)
    /\ UNCHANGED <<cpuVars, pc, cvVars, notifyVars, exitCodeMap, isLast, exitArg,
                   w4Target, w4Ret, nCalls, extVars>>

\* the parent's next syscall: sys_wait4(-1), sys_wait4(pid) or sys_kill(pid, sig);
\* after `limit` calls it exits
ParentCall(t, kinds, limit) ==
    /\ OnCpu(t)
    /\ pc[t] = "p_next"
    /\ IF nCalls < limit
       THEN /\ nCalls' = nCalls + 1
            /\ \E kind \in kinds :
               \E sig \in Sigs :
                /\ pc' = [pc EXCEPT ![t] =
                            IF kind = "kill" THEN "kill_exit_all" ELSE "w4_check"]
                /\ w4Target' = IF kind = "wait4_any" THEN AnyChild
                               ELSE IF kind = "wait4_pid" THEN ChildPid
                               ELSE w4Target
                /\ exitArg' = IF kind = "kill" THEN [exitArg EXCEPT ![t] = sig] ELSE exitArg
       ELSE /\ pc' = [pc EXCEPT ![t] = "exit"]
            /\ UNCHANGED <<nCalls, w4Target, exitArg>>
    /\ UNCHANGED <<poolVars, cpuVars, cvVars, notifyVars, threads, exitCodeMap, isLast,
                   w4Ret, extVars>>

\* `exit_code as i32` (line 88): the low 32 bits of the usize, as a signed
\* value; codes up to I32Max keep their value
AsI32(c) == IF c <= I32Max THEN c ELSE c - I32Max - I32Max - 2

\* sys_wait4 that takes any live child as a match, whatever the target.
sys_wait4_any_child(t) ==
    /\ OnCpu(t)
    /\ pc[t] = "w4_check"
    /\ LET found == {e \in exitCodeMap : w4Target = AnyChild \/ e[1] = w4Target}
       IN  IF found # {}
           THEN LET e == CHOOSE e \in found : \A f \in found : e[1] <= f[1]
                IN  /\ exitCodeMap' = exitCodeMap \ {e}
                    /\ w4Ret' = Append(w4Ret, <<e[1], AsI32(e[2])>>)
                    /\ pc' = [pc EXCEPT ![t] = "p_next"]
           ELSE IF \A u \in ChildTids : status[u] \notin {"Ready", "Running", "Sleeping"}
           THEN /\ w4Ret' = Append(w4Ret, <<ECHILD, 0>>)
                /\ pc' = [pc EXCEPT ![t] = "p_next"]
                /\ UNCHANGED exitCodeMap
           ELSE /\ pc' = [pc EXCEPT ![t] = "wait_enq"]
                /\ UNCHANGED <<exitCodeMap, w4Ret>>
    /\ UNCHANGED <<poolVars, cpuVars, cvVars, notifyVars, threads, isLast, exitArg,
                   w4Target, nCalls, extVars>>

\* sys_wait4, lines 72-115: one turn of the loop under the process lock
Found == {e \in exitCodeMap : w4Target = AnyChild \/ e[1] = w4Target}

sys_wait4(t) ==
    /\ OnCpu(t)
    /\ pc[t] = "w4_check"
    /\ IF Found # {}
       THEN LET e == CHOOSE e \in Found : \A f \in Found : e[1] <= f[1]
            IN  /\ exitCodeMap' = exitCodeMap \ {e}
                /\ w4Ret' = Append(w4Ret, <<e[1], AsI32(e[2])>>)
                /\ pc' = [pc EXCEPT ![t] = "p_next"]
       ELSE IF ~ProcAlive \/ w4Target \notin {AnyChild, ChildPid}
       THEN /\ w4Ret' = Append(w4Ret, <<ECHILD, 0>>)
            /\ pc' = [pc EXCEPT ![t] = "p_next"]
            /\ UNCHANGED exitCodeMap
       ELSE /\ pc' = [pc EXCEPT ![t] = "wait_enq"]
            /\ UNCHANGED <<exitCodeMap, w4Ret>>
    /\ UNCHANGED <<poolVars, cpuVars, cvVars, notifyVars, threads, isLast, exitArg,
                   w4Target, nCalls, extVars>>

\* Condvar::_wait, called by sys_wait4 on child_exit
_wait(t) ==
    \/ add_to_wait_queue(t, "wait_sleep")
    \/ park_sleep(t, "wait_drop_lock")
    \/ wait_drop_lock(t, "wait_yield")
    \/ park_yield(t, "w4_check")

\* sys_exit, lines 236-247
sys_exit_retain(t) ==
    /\ Goto(t, "c_main", "exit_notify")
    /\ \E code \in ExitCodes : exitArg' = [exitArg EXCEPT ![t] = code]
    /\ threads' = Remove(threads, t)
    /\ isLast' = [isLast EXCEPT ![t] = (Remove(threads, t) = <<>>)]
    /\ UNCHANGED <<poolVars, cpuVars, cvVars, notifyVars, exitCodeMap, w4Target,
                   w4Ret, nCalls, extVars>>

\* sys_exit, lines 248-254
sys_exit_notify(t) ==
    /\ Goto(t, "exit_notify", "exit")
    /\ IF isLast[t]
       THEN NotifyParent(t, exitArg[t])
       ELSE UNCHANGED <<poolVars, cpuVars, cvVars, notifyVars, procVars, extVars>>

\* sys_exit_group, lines 276-288
sys_exit_group_exit(t) ==
    /\ Goto(t, "c_main", "eg_notify")
    /\ \E code \in ExitCodes :
        /\ exitArg' = [exitArg EXCEPT ![t] = code]
        /\ pool_exit_all(Range(threads), code)
    /\ UNCHANGED <<cpuVars, cvVars, notifyVars, threads, exitCodeMap, isLast,
                   w4Target, w4Ret, nCalls, extVars>>

\* sys_exit_group, lines 289-293
sys_exit_group_notify(t) ==
    /\ Goto(t, "eg_notify", "eg_yield")
    /\ NotifyParent(t, exitArg[t])

\* sys_exit_group, lines 295-296
sys_exit_group_yield(t) ==
    /\ Goto(t, "eg_yield", "unreachable")
    /\ yield_now(CpuOf(t))
    /\ UNCHANGED <<poolVars, cvVars, notifyVars, procVars, extVars>>

\* sys_kill that marks every tid of proc.threads Exited with the signal as
\* its code by itself, whatever the thread's state.
sys_kill_exit_force(t) ==
    /\ OnCpu(t)
    /\ pc[t] = "kill_exit_all"
    /\ IF ProcAlive
       THEN /\ status' = [u \in Tids |->
                    IF u \in Range(threads) /\ status[u] # "Running"
                    THEN "Exited" ELSE status[u]]
            /\ afterStop' = [u \in Tids |->
                    IF u \in Range(threads) /\ status[u] = "Running"
                    THEN "Exited" ELSE afterStop[u]]
            /\ exitCode' = [u \in Tids |->
                    IF u \in Range(threads) THEN exitArg[t] ELSE exitCode[u]]
            /\ runq' = SelectSeq(runq, LAMBDA u : u \notin Range(threads))
            /\ UNCHANGED ctxInPool
            /\ pc' = [pc EXCEPT ![t] = "kill_notify"]
       ELSE /\ pc' = [pc EXCEPT ![t] = "p_next"]
            /\ UNCHANGED poolVars
    /\ UNCHANGED <<cpuVars, cvVars, notifyVars, procVars, extVars>>

\* sys_kill, lines 193-203 and 210-212
sys_kill_exit(t) ==
    /\ OnCpu(t)
    /\ pc[t] = "kill_exit_all"
    /\ IF ProcAlive
       THEN /\ pool_exit_all(Range(threads), exitArg[t])
            /\ pc' = [pc EXCEPT ![t] = "kill_notify"]
       ELSE /\ pc' = [pc EXCEPT ![t] = "p_next"]
            /\ UNCHANGED poolVars
    /\ UNCHANGED <<cpuVars, cvVars, notifyVars, procVars, extVars>>

\* sys_kill, lines 204-209
sys_kill_notify(t) ==
    /\ Goto(t, "kill_notify", "p_next")
    /\ NotifyParent(t, exitArg[t])

InitProc ==
    /\ status = [t \in Tids |-> IF t = Parent THEN "Ready" ELSE "Unused"]
    /\ afterStop = [t \in Tids |-> "Ready"]
    /\ ctxInPool = [t \in Tids |-> t = Parent]
    /\ runq = <<Parent>>
    /\ exitCode = [t \in Tids |-> 0]
    /\ proc = [c \in Cpus |-> None]
    /\ cpuPc = [c \in Cpus |-> "loop"]
    /\ intr = [c \in Cpus |-> FALSE]
    /\ pc = [t \in Tids |-> IF t = Parent THEN "p_fork" ELSE "c_main"]
    /\ mutex = None
    /\ wqLock = None
    /\ waitq = <<>>
    /\ avail = 0
    /\ nArg = [t \in Tids |-> 0]
    /\ nCount = [t \in Tids |-> 0]
    /\ nStartQ = [t \in Tids |-> <<>>]
    /\ nWoken = [t \in Tids |-> <<>>]
    /\ InitProc0
    /\ InitExt0

ProcStep(t) ==
    \/ sys_fork(t)
    \/ sys_clone(t)
    \/ ParentCall(t, {"wait4_any", "wait4_pid", "kill"}, MaxCalls)
    \/ sys_wait4(t)
    \/ _wait(t)
    \/ sys_exit_retain(t)
    \/ sys_exit_notify(t)
    \/ sys_exit_group_exit(t)
    \/ sys_exit_group_notify(t)
    \/ sys_exit_group_yield(t)
    \/ sys_kill_exit(t)
    \/ sys_kill_notify(t)
    \/ Exit(t)

NextProc ==
    \/ \E c \in Cpus : CpuStep(c)
    \/ \E t \in Tids : ProcStep(t)

SpecProc == InitProc /\ [][NextProc]_vars

\* fork, then the child calls sys_exit while the parent calls sys_wait4(-1)
ForkExitStep(t) ==
    \/ sys_fork(t)
    \/ ParentCall(t, {"wait4_any"}, 1)
    \/ sys_wait4(t)
    \/ _wait(t)
    \/ sys_exit_retain(t)
    \/ sys_exit_notify(t)
    \/ Exit(t)

NextForkExit ==
    \/ \E c \in Cpus : CpuStep(c)
    \/ \E t \in Tids : ForkExitStep(t)

SpecForkExit == InitProc /\ [][NextForkExit]_vars

\* ------------------------------------------ wait_any and stale handles
\* Thread 1 calls wait_any on two condvars and exits; thread 2 (the driver)
\* notifies the condvars and creates further threads that do the same.
\* A handle is <<Tid, incarnation>>; unpark acts on the Tid.
Waiter0 == 1
Driver == 2

HandlesOf(u) == {<<cv, i>> \in Cvs \X (1..NumThreads * (MaxOps + 1)) :
                    i <= Len(cvq[cv]) /\ cvq[cv][i][1] = u}

\* a slot is reused as soon as its thread has exited.
SlotFree_exited(u) == status[u] \in {"Unused", "Exited"}

\* ThreadPool::add gives out a slot that was never used, or the slot of an
\* exited thread once the last handle to it is dropped.
SlotFree(u) ==
    \/ status[u] = "Unused"
    \/ status[u] = "Exited" /\ HandlesOf(u) = {}

\* wait_any that lets each queue lock go as soon as the token is pushed.
wait_any_enq_release(t) ==
    /\ OnCpu(t)
    /\ pc[t] \in {"any_enq1", "any_enq2"}
    /\ LET i == IF pc[t] = "any_enq1" THEN 1 ELSE 2
           cv == order[t][i]
       IN  /\ cvLock[cv] = None
           /\ cvFlags' = [cvFlags EXCEPT ![cv] = intr[CpuOf(t)]]
           /\ cvq' = [cvq EXCEPT ![cv] = Append(@, <<t, gen[t]>>)]
           /\ pc' = [pc EXCEPT ![t] = IF i = 1 THEN "any_enq2" ELSE "wait_sleep"]
    /\ intr' = [intr EXCEPT ![CpuOf(t)] = FALSE]
    /\ UNCHANGED <<poolVars, proc, cpuPc, cvVars, notifyVars, procVars,
                   cvLock, gen, order, ops, log,
                   extNotAny>>

\* wait_any, lines 48-52: one turn of the loop: lock the queue (SpinNoIrq:
\* save the interrupt flag, disable), push the token, keep the guard
wait_any_enq(t) ==
    /\ OnCpu(t)
    /\ pc[t] \in {"any_enq1", "any_enq2"}
    /\ LET i == IF pc[t] = "any_enq1" THEN 1 ELSE 2
           cv == order[t][i]
       IN  /\ cvLock[cv] = None
           /\ cvLock' = [cvLock EXCEPT ![cv] = t]
           /\ cvFlags' = [cvFlags EXCEPT ![cv] = intr[CpuOf(t)]]
           /\ cvq' = [cvq EXCEPT ![cv] = Append(@, <<t, gen[t]>>)]
           /\ pc' = [pc EXCEPT ![t] = IF i = 1 THEN "any_enq2" ELSE "wait_sleep"]
    /\ intr' = [intr EXCEPT ![CpuOf(t)] = FALSE]
    /\ UNCHANGED <<poolVars, proc, cpuPc, cvVars, notifyVars, procVars,
                   gen, order, ops, log,
                   extNotAny>>

\* wait_any, lines 54-56: the closure drops the guards in the order they
\* were taken; each restores the flag it saved
wait_any_drop(t) ==
    /\ OnCpu(t)
    /\ pc[t] \in {"any_drop1", "any_drop2"}
    /\ LET i == IF pc[t] = "any_drop1" THEN 1 ELSE 2
           cv == order[t][i]
       IN  /\ cvLock' = [cvLock EXCEPT ![cv] = None]
           /\ intr' = [intr EXCEPT ![CpuOf(t)] = cvFlags[cv]]
           /\ pc' = [pc EXCEPT ![t] = IF i = 1 THEN "any_drop2" ELSE "wait_yield"]
    /\ UNCHANGED <<poolVars, proc, cpuPc, cvVars, notifyVars, procVars,
                   cvq, cvFlags, gen, order, ops, log,
                   extNotAny>>

\* Condvar::wait_any(&[a, b]); the caller exits when it returns
wait_any(t) ==
    \/ wait_any_enq(t)
    \/ park_sleep(t, "any_drop1")
    \/ wait_any_drop(t)
    \/ park_yield(t, "exit")

\* what an unpark finds: the status, "Parking" for a thread that has marked
\* itself Sleeping and has not left its CPU yet
StateOf(h) ==
    IF status[h] = "Running" /\ afterStop[h] = "Sleeping" THEN "Parking" ELSE status[h]

\* notify_one that hands the popped thread to the scheduler itself instead
\* of calling unpark.
PopOn_enqueue(cv) ==
    /\ cvLock[cv] = None
    /\ IF cvq[cv] # <<>>
       THEN LET h == Head(cvq[cv])[1]
            IN  /\ cvq' = [cvq EXCEPT ![cv] = Tail(@)]
                /\ status' = [status EXCEPT ![h] = "Ready"]
                /\ runq' = Append(runq, h)
                /\ log' = Append(log, StateOf(h))
                /\ UNCHANGED <<afterStop, ctxInPool, exitCode>>
       ELSE /\ log' = Append(log, "none")
            /\ UNCHANGED <<poolVars, cvq>>

\* Condvar::notify_one on cv: pop_front and unpark under the queue lock
PopOn(cv) ==
    /\ cvLock[cv] = None
    /\ IF cvq[cv] # <<>>
       THEN LET h == Head(cvq[cv])[1]
            IN  /\ cvq' = [cvq EXCEPT ![cv] = Tail(@)]
                /\ pool_wakeup(h)
                /\ log' = Append(log, StateOf(h))
       ELSE /\ log' = Append(log, "none")
            /\ UNCHANGED <<poolVars, cvq>>

\* the driver calls notify_one on one of the condvars
DriverNotify(t) ==
    /\ OnCpu(t)
    /\ pc[t] = "d_next"
    /\ ops < MaxOps
    /\ ops' = ops + 1
    /\ \E cv \in Cvs : PopOn(cv)
    /\ UNCHANGED <<cpuVars, pc, cvVars, notifyVars, procVars, cvLock, cvFlags, gen, order,
                   extNotAny>>

\* the driver creates a thread (sys_clone, line 46: manager.add) that
\* calls wait_any
DriverClone(t) ==
    /\ OnCpu(t)
    /\ pc[t] = "d_next"
    /\ ops < MaxOps
    /\ ops' = ops + 1
    /\ \E u \in Tids :
       \E o \in Orders :
        /\ SlotFree(u)
        /\ pool_add(u)
        /\ gen' = [gen EXCEPT ![u] = @ + 1]
        /\ order' = [order EXCEPT ![u] = o]
        /\ pc' = [pc EXCEPT ![u] = "any_enq1"]
    /\ log' = Append(log, "clone")
    /\ UNCHANGED <<cpuVars, cvVars, notifyVars, procVars, cvq, cvLock, cvFlags,
                   extNotAny>>

DriverDone(t) ==
    /\ Goto(t, "d_next", "exit")
    /\ ops = MaxOps
    /\ UNCHANGED <<poolVars, cpuVars, cvVars, notifyVars, procVars, extVars>>

InitAny ==
    /\ status = [t \in Tids |-> IF t \in {Waiter0, Driver} THEN "Ready" ELSE "Unused"]
    /\ afterStop = [t \in Tids |-> "Ready"]
    /\ ctxInPool = [t \in Tids |-> t \in {Waiter0, Driver}]
    /\ runq = <<Waiter0, Driver>>
    /\ exitCode = [t \in Tids |-> 0]
    /\ proc = [c \in Cpus |-> None]
    /\ cpuPc = [c \in Cpus |-> "loop"]
    /\ intr = [c \in Cpus |-> FALSE]
    /\ pc = [t \in Tids |-> IF t = Driver THEN "d_next" ELSE "any_enq1"]
    /\ mutex = None
    /\ wqLock = None
    /\ waitq = <<>>
    /\ avail = 0
    /\ nArg = [t \in Tids |-> 0]
    /\ nCount = [t \in Tids |-> 0]
    /\ nStartQ = [t \in Tids |-> <<>>]
    /\ nWoken = [t \in Tids |-> <<>>]
    /\ InitProc0
    /\ InitRR0
    /\ InitIpi0
    /\ InitSem0
    /\ InitChan0
    /\ InitMore0
    /\ cvq = [cv \in Cvs |-> <<>>]
    /\ cvLock = [cv \in Cvs |-> None]
    /\ cvFlags = [cv \in Cvs |-> FALSE]
    /\ gen = [t \in Tids |-> IF t \in {Waiter0, Driver} THEN 1 ELSE 0]
    /\ \E o \in Orders : order = [t \in Tids |-> IF t = Waiter0 THEN o ELSE <<>>]
    /\ ops = 0
    /\ log = <<>>

AnyStep(t) ==
    \/ wait_any(t)
    \/ DriverNotify(t)
    \/ DriverClone(t)
    \/ DriverDone(t)
    \/ Exit(t)

NextAny ==
    \/ \E c \in Cpus : CpuStep(c)
    \/ \E t \in Tids : AnyStep(t)

SpecAny == InitAny /\ [][NextAny]_vars

\* ------------------------------------------- round-robin time slices
\* N threads that only compute share CPU RRCpu.  ThreadPool::tick and the
\* slice budget follow the design document: the slice is refilled when
\* the scheduler picks the thread, every tick takes one unit, and tick
\* returns true once nothing is left.
RRCpu == 1

RRThreads == {t \in Tids : status[t] # "Unused"}

\* Processor::run, lines 61-68, with the scheduler's bookkeeping.
RunThreadRR(c) ==
    /\ cpuPc[c] = "loop"
    /\ \E t \in Tids :
        /\ pool_run(t)
        /\ proc' = [proc EXCEPT ![c] = t]
        /\ slice' = [slice EXCEPT ![t] = Slice]
        /\ ranOrder' = Append(ranOrder, t)
    /\ cpuPc' = [cpuPc EXCEPT ![c] = "thread"]
    /\ intr' = [intr EXCEPT ![c] = TRUE]
    /\ UNCHANGED <<pc, cvVars, notifyVars, procVars, extNotRR, ticks>>

\* Processor::tick that calls pool.tick and ignores need_reschedule.
TickRR_ignore(c) ==
    /\ cpuPc[c] = "thread"
    /\ intr[c]
    /\ ticks < MaxTicks
    /\ ticks' = ticks + 1
    /\ slice' = [slice EXCEPT ![proc[c]] = @ - 1]
    /\ UNCHANGED <<poolVars, cpuVars, pc, cvVars, notifyVars, procVars,
                   extNotRR, ranOrder>>

\* Processor::tick whose pool.tick asks for the switch two ticks late.
TickRR_late(c) ==
    /\ cpuPc[c] = "thread"
    /\ intr[c]
    /\ ticks < MaxTicks
    /\ ticks' = ticks + 1
    /\ slice' = [slice EXCEPT ![proc[c]] = @ - 1]
    /\ IF slice'[proc[c]] <= -2
       THEN yield_now(c)
       ELSE UNCHANGED cpuVars
    /\ UNCHANGED <<poolVars, pc, cvVars, notifyVars, procVars, extNotRR,
                   ranOrder>>

\* Processor::tick, lines 118-126: tid of the running thread, pool.tick
\* (one unit off its slice; true when the slice is used up), yield_now
\* when it returned true.
TickRR(c) ==
    /\ cpuPc[c] = "thread"
    /\ intr[c]
    /\ ticks < MaxTicks
    /\ ticks' = ticks + 1
    /\ slice' = [slice EXCEPT ![proc[c]] = @ - 1]
    /\ IF slice'[proc[c]] <= 0
       THEN yield_now(c)
       ELSE UNCHANGED cpuVars
    /\ UNCHANGED <<poolVars, pc, cvVars, notifyVars, procVars, extNotRR,
                   ranOrder>>

\* a thread computes: it neither blocks nor exits
RRWork(t) ==
    /\ \/ Goto(t, "work0", "work1")
       \/ Goto(t, "work1", "work0")
    /\ UNCHANGED <<poolVars, cpuVars, cvVars, notifyVars, procVars, extVars>>

\* threads 1..n are Ready, queued in the order they were added
InitRR ==
    /\ \E n \in 1..NumThreads :
        /\ status = [t \in Tids |-> IF t <= n THEN "Ready" ELSE "Unused"]
        /\ ctxInPool = [t \in Tids |-> t <= n]
        /\ runq = [i \in 1..n |-> i]
    /\ afterStop = [t \in Tids |-> "Ready"]
    /\ exitCode = [t \in Tids |-> 0]
    /\ proc = [c \in Cpus |-> None]
    /\ cpuPc = [c \in Cpus |-> "loop"]
    /\ intr = [c \in Cpus |-> FALSE]
    /\ pc = [t \in Tids |-> "work0"]
    /\ mutex = None
    /\ wqLock = None
    /\ waitq = <<>>
    /\ avail = 0
    /\ nArg = [t \in Tids |-> 0]
    /\ nCount = [t \in Tids |-> 0]
    /\ nStartQ = [t \in Tids |-> <<>>]
    /\ nWoken = [t \in Tids |-> <<>>]
    /\ InitProc0
    /\ InitExt0

NextRR ==
    \/ RunThreadRR(RRCpu)
    \/ StopThread(RRCpu)
    \/ TickRR(RRCpu)
    \/ \E t \in Tids : RRWork(t)

SpecRR == InitRR /\ [][NextRR]_vars

\* ------------------------------------------------- IPI broadcast
\* Threads call invoke_on_allcpu(f, arg, wait).  Cpu::foreach,
\* Cpu::notify_event, the IPI handler and Semaphore follow the design
\* document: notify_event appends to the CPU's pending-event list; on
\* receipt of the IPI the CPU takes the list and runs the events in
\* order; Semaphore::acquire blocks while the count is zero.
Callers == {1, 2}

\* the closure of Cpu::foreach, lines 66-67 with push to the front
IpiEnq_front(t) ==
    /\ Goto(t, "ipi_enq", "ipi_send")
    /\ cpu_count' = [cpu_count EXCEPT ![t] = @ + 1]
    /\ evq' = [evq EXCEPT ![ipiK[t]] = <<t>> \o @]
    /\ enqLog' = [enqLog EXCEPT ![ipiK[t]] = Append(@, t)]
    /\ UNCHANGED <<poolVars, cpuVars, cvVars, notifyVars, procVars, extNotIpi,
                   cur, ipiPend, ipiRet, sem, ipiWait, ipiK, ranLog>>

\* the closure of Cpu::foreach, lines 66-67: cpu_count += 1;
\* cpu.notify_event(createItem(f, &arcarg, &sem))
IpiEnq(t) ==
    /\ Goto(t, "ipi_enq", "ipi_send")
    /\ cpu_count' = [cpu_count EXCEPT ![t] = @ + 1]
    /\ evq' = [evq EXCEPT ![ipiK[t]] = Append(@, t)]
    /\ enqLog' = [enqLog EXCEPT ![ipiK[t]] = Append(@, t)]
    /\ UNCHANGED <<poolVars, cpuVars, cvVars, notifyVars, procVars, extNotIpi,
                   cur, ipiPend, ipiRet, sem, ipiWait, ipiK, ranLog>>

\* Cpu::foreach that sends no IPI to the CPU the caller runs on.
IpiSend_others(t) ==
    /\ OnCpu(t)
    /\ pc[t] = "ipi_send"
    /\ ipiPend' = [ipiPend EXCEPT ![ipiK[t]] = (@ \/ ipiK[t] # CpuOf(t))]
    /\ IF ipiK[t] < NumCpus
       THEN /\ ipiK' = [ipiK EXCEPT ![t] = @ + 1]
            /\ pc' = [pc EXCEPT ![t] = "ipi_enq"]
       ELSE /\ pc' = [pc EXCEPT ![t] =
                        IF ipiWait[t] THEN "ipi_acquire" ELSE "exit"]
            /\ UNCHANGED ipiK
    /\ UNCHANGED <<poolVars, cpuVars, cvVars, notifyVars, procVars, extNotIpi,
                   evq, cur, ipiRet, sem, ipiWait, cpu_count, enqLog, ranLog>>

\* the closure, line 68: apic.send_ipi(id, IPIFuncCall); then the next
\* CPU, or lines 70-76: `if wait`
IpiSend(t) ==
    /\ OnCpu(t)
    /\ pc[t] = "ipi_send"
    /\ ipiPend' = [ipiPend EXCEPT ![ipiK[t]] = TRUE]
    /\ IF ipiK[t] < NumCpus
       THEN /\ ipiK' = [ipiK EXCEPT ![t] = @ + 1]
            /\ pc' = [pc EXCEPT ![t] = "ipi_enq"]
       ELSE /\ pc' = [pc EXCEPT ![t] =
                        IF ipiWait[t] THEN "ipi_acquire" ELSE "exit"]
            /\ UNCHANGED ipiK
    /\ UNCHANGED <<poolVars, cpuVars, cvVars, notifyVars, procVars, extNotIpi,
                   evq, cur, ipiRet, sem, ipiWait, cpu_count, enqLog, ranLog>>

\* lines 70-76 with `if wait { sem.acquire() }`: one acquire for the call
IpiAcquire_once(t) ==
    /\ OnCpu(t)
    /\ pc[t] = "ipi_acquire"
    /\ sem[t] > 0
    /\ sem' = [sem EXCEPT ![t] = @ - 1]
    /\ cpu_count' = [cpu_count EXCEPT ![t] = 0]
    /\ pc' = [pc EXCEPT ![t] = "exit"]
    /\ UNCHANGED <<poolVars, cpuVars, cvVars, notifyVars, procVars, extNotIpi,
                   evq, cur, ipiPend, ipiRet, ipiWait, ipiK, enqLog, ranLog>>

\* lines 71-75: one iteration of `for _ in 0..cpu_count { sem.acquire() }`;
\* cpu_count holds the iterations left.  The call returns after the last.
IpiAcquire(t) ==
    /\ OnCpu(t)
    /\ pc[t] = "ipi_acquire"
    /\ sem[t] > 0
    /\ sem' = [sem EXCEPT ![t] = @ - 1]
    /\ cpu_count' = [cpu_count EXCEPT ![t] = @ - 1]
    /\ pc' = [pc EXCEPT ![t] =
                IF cpu_count[t] = 1 THEN "exit" ELSE "ipi_acquire"]
    /\ UNCHANGED <<poolVars, cpuVars, cvVars, notifyVars, procVars, extNotIpi,
                   evq, cur, ipiPend, ipiRet, ipiWait, ipiK, enqLog, ranLog>>

\* invoke_on_allcpu
invoke_on_allcpu(t) ==
    \/ IpiEnq(t)
    \/ IpiSend(t)
    \/ IpiAcquire(t)

\* the CPU takes the IPIFuncCall interrupt: interrupts go off and the
\* handler takes the pending-event list
IpiEnter(c) ==
    /\ ipiPend[c]
    /\ intr[c]
    /\ cpuPc[c] \in {"thread", "idle"}
    /\ ipiPend' = [ipiPend EXCEPT ![c] = FALSE]
    /\ ipiRet' = [ipiRet EXCEPT ![c] = cpuPc[c]]
    /\ cpuPc' = [cpuPc EXCEPT ![c] = "ipi_call"]
    /\ intr' = [intr EXCEPT ![c] = FALSE]
    /\ cur' = [cur EXCEPT ![c] = evq[c]]
    /\ evq' = [evq EXCEPT ![c] = <<>>]
    /\ UNCHANGED <<poolVars, proc, pc, cvVars, notifyVars, procVars, extNotIpi,
                   sem, ipiWait, ipiK, cpu_count, enqLog, ranLog>>

\* InvokeEvent::call, line 33: (self.function)(arg_ref)
IpiCall(c) ==
    /\ cpuPc[c] = "ipi_call"
    /\ cur[c] # <<>>
    /\ ranLog' = [ranLog EXCEPT ![c] = Append(@, Head(cur[c]))]
    /\ cpuPc' = [cpuPc EXCEPT ![c] = "ipi_release"]
    /\ UNCHANGED <<poolVars, proc, intr, pc, cvVars, notifyVars, procVars,
                   extNotIpi, evq, cur, ipiPend, ipiRet, sem, ipiWait, ipiK,
                   cpu_count, enqLog>>

\* InvokeEvent::call, line 35: self.done_semaphore.release()
IpiRelease(c) ==
    /\ cpuPc[c] = "ipi_release"
    /\ sem' = [sem EXCEPT ![Head(cur[c])] = @ + 1]
    /\ cur' = [cur EXCEPT ![c] = Tail(@)]
    /\ cpuPc' = [cpuPc EXCEPT ![c] = "ipi_call"]
    /\ UNCHANGED <<poolVars, proc, intr, pc, cvVars, notifyVars, procVars,
                   extNotIpi, evq, ipiPend, ipiRet, ipiWait, ipiK, cpu_count,
                   enqLog, ranLog>>

\* the handler has run the events it took and returns from the interrupt
IpiReturn(c) ==
    /\ cpuPc[c] = "ipi_call"
    /\ cur[c] = <<>>
    /\ cpuPc' = [cpuPc EXCEPT ![c] = ipiRet[c]]
    /\ intr' = [intr EXCEPT ![c] = TRUE]
    /\ UNCHANGED <<poolVars, proc, pc, cvVars, notifyVars, procVars, extVars>>

IpiHandler(c) ==
    \/ IpiEnter(c)
    \/ IpiCall(c)
    \/ IpiRelease(c)
    \/ IpiReturn(c)

\* the callers are Ready; each chooses its `wait`
InitIpi ==
    /\ status = [t \in Tids |-> IF t \in Callers THEN "Ready" ELSE "Unused"]
    /\ afterStop = [t \in Tids |-> "Ready"]
    /\ ctxInPool = [t \in Tids |-> t \in Callers]
    /\ runq = <<1, 2>>
    /\ exitCode = [t \in Tids |-> 0]
    /\ proc = [c \in Cpus |-> None]
    /\ cpuPc = [c \in Cpus |-> "loop"]
    /\ intr = [c \in Cpus |-> FALSE]
    /\ pc = [t \in Tids |-> "ipi_enq"]
    /\ mutex = None
    /\ wqLock = None
    /\ waitq = <<>>
    /\ avail = 0
    /\ nArg = [t \in Tids |-> 0]
    /\ nCount = [t \in Tids |-> 0]
    /\ nStartQ = [t \in Tids |-> <<>>]
    /\ nWoken = [t \in Tids |-> <<>>]
    /\ InitProc0
    /\ InitAny0
    /\ InitRR0
    /\ InitSem0
    /\ InitChan0
    /\ InitMore0
    /\ evq = [c \in Cpus |-> <<>>]
    /\ cur = [c \in Cpus |-> <<>>]
    /\ ipiPend = [c \in Cpus |-> FALSE]
    /\ ipiRet = [c \in Cpus |-> "thread"]
    /\ sem = [t \in Tids |-> 0]
    /\ ipiWait \in [Tids -> BOOLEAN]
    /\ \A t \in Tids \ Callers : ~ipiWait[t]
    /\ ipiK = [t \in Tids |-> 1]
    /\ cpu_count = [t \in Tids |-> 0]
    /\ enqLog = [c \in Cpus |-> <<>>]
    /\ ranLog = [c \in Cpus |-> <<>>]

NextIpi ==
    \/ \E c \in Cpus : CpuStep(c)
    \/ \E c \in Cpus : IpiHandler(c)
    \/ \E t \in Tids : invoke_on_allcpu(t)
    \/ \E t \in Tids : Exit(t)

SpecIpi == InitIpi /\ [][NextIpi]_vars

\* ------------------------------------------------------- Semaphore
\* Semaphore over Mutex + Condvar as the design document gives it:
\*   acquire: lock; while count == 0 { guard = cvar.wait(guard) }; count -= 1
\*   release: lock; count += 1; cvar.notify_one()
\* `avail` is the count.  Every thread acquires, stays in its critical
\* section, releases and ends.

\* the test of acquire, under the lock
SemTest(t) ==
    IF avail > 0
    THEN /\ avail' = avail - 1
         /\ pc' = [pc EXCEPT ![t] = "sem_acq_ret"]
    ELSE /\ pc' = [pc EXCEPT ![t] = "wait_enq"]
         /\ UNCHANGED avail

SemLock(t) ==
    /\ OnCpu(t)
    /\ pc[t] = "sem_acquire"
    /\ mutex = None
    /\ mutex' = t
    /\ SemTest(t)
    /\ UNCHANGED <<poolVars, cpuVars, wqLock, waitq, notifyVars, procVars, extVars>>

\* acquire with `if` in place of `while`: no test after wait returns
SemCheck_once(t) ==
    /\ OnCpu(t)
    /\ pc[t] = "sem_check"
    /\ avail' = avail - 1
    /\ pc' = [pc EXCEPT ![t] = "sem_acq_ret"]
    /\ UNCHANGED <<poolVars, cpuVars, mutex, wqLock, waitq, notifyVars, procVars, extVars>>

\* wait has returned the guard: the loop tests the count again
SemCheck(t) ==
    /\ OnCpu(t)
    /\ pc[t] = "sem_check"
    /\ SemTest(t)
    /\ UNCHANGED <<poolVars, cpuVars, mutex, wqLock, waitq, notifyVars, procVars, extVars>>

\* Condvar::wait called from acquire
SemWait(t) ==
    \/ add_to_wait_queue(t, "wait_sleep")
    \/ park_sleep(t, "wait_drop_lock")
    \/ wait_drop_lock(t, "wait_drop_guard")
    \/ wait_drop_guard(t, "wait_yield")
    \/ park_yield(t, "wait_relock")
    \/ wait_relock(t, "sem_check")

\* acquire returns: the guard goes
SemAcqRet(t) ==
    /\ Goto(t, "sem_acq_ret", "cs")
    /\ mutex' = None
    /\ UNCHANGED <<poolVars, cpuVars, wqLock, waitq, avail, notifyVars, procVars, extVars>>

Semaphore_acquire(t) ==
    \/ SemLock(t)
    \/ SemWait(t)
    \/ SemCheck(t)
    \/ SemAcqRet(t)

\* the critical section
SemCs(t) ==
    /\ Goto(t, "cs", "sem_release")
    /\ UNCHANGED <<poolVars, cpuVars, cvVars, notifyVars, procVars, extVars>>

SemRelLock(t) ==
    /\ OnCpu(t)
    /\ pc[t] = "sem_release"
    /\ mutex = None
    /\ mutex' = t
    /\ avail' = avail + 1
    /\ pc' = [pc EXCEPT ![t] = "notify_one"]
    /\ nArg' = [nArg EXCEPT ![t] = 1]
    /\ nCount' = [nCount EXCEPT ![t] = 0]
    /\ nStartQ' = [nStartQ EXCEPT ![t] = waitq]
    /\ nWoken' = [nWoken EXCEPT ![t] = <<>>]
    /\ UNCHANGED <<poolVars, cpuVars, wqLock, waitq, procVars, extVars>>

SemRelRet(t) ==
    /\ Goto(t, "sem_rel_ret", "exit")
    /\ mutex' = None
    /\ nStartQ' = [nStartQ EXCEPT ![t] = <<>>]
    /\ nWoken' = [nWoken EXCEPT ![t] = <<>>]
    /\ UNCHANGED <<poolVars, cpuVars, wqLock, waitq, avail, nArg, nCount, procVars, extVars>>

Semaphore_release(t) ==
    \/ SemRelLock(t)
    \/ notify_one(t, "sem_rel_ret")
    \/ SemRelRet(t)

\* Semaphore::new(c), 1 <= c <= SemCount; all threads Ready
InitSem ==
    /\ status = [t \in Tids |-> "Ready"]
    /\ afterStop = [t \in Tids |-> "Ready"]
    /\ ctxInPool = [t \in Tids |-> TRUE]
    /\ runq = [i \in 1..NumThreads |-> i]
    /\ exitCode = [t \in Tids |-> 0]
    /\ proc = [c \in Cpus |-> None]
    /\ cpuPc = [c \in Cpus |-> "loop"]
    /\ intr = [c \in Cpus |-> FALSE]
    /\ pc = [t \in Tids |-> "sem_acquire"]
    /\ mutex = None
    /\ wqLock = None
    /\ waitq = <<>>
    /\ semInit \in 1..SemCount
    /\ avail = semInit
    /\ nArg = [t \in Tids |-> 0]
    /\ nCount = [t \in Tids |-> 0]
    /\ nStartQ = [t \in Tids |-> <<>>]
    /\ nWoken = [t \in Tids |-> <<>>]
    /\ InitProc0
    /\ InitAny0
    /\ InitRR0
    /\ InitIpi0
    /\ InitChan0
    /\ InitMore0

SemStep(t) ==
    \/ Semaphore_acquire(t)
    \/ SemCs(t)
    \/ Semaphore_release(t)
    \/ Exit(t)

NextSem ==
    \/ \E c \in Cpus : CpuStep(c)
    \/ \E t \in Tids : SemStep(t)

SpecSem == InitSem /\ [][NextSem]_vars

\* threads between the decrement of acquire and the increment of release
InCs == {t \in Tids : pc[t] \in {"sem_acq_ret", "cs", "sem_release"}}

\* --------------------------------------------- capacity-1 channel
\* One mutex, one condvar, one slot; `avail` is 1 while the slot is full.
\*   send(x): lock; while full { g = cv.wait(g) }; slot = x; full = true;
\*            cv.notify_one(); unlock
\*   recv():  lock; while !full { g = cv.wait(g) }; x = slot; full = false;
\*            cv.notify_one(); unlock
\* The producer sends 1..Items, the consumer receives Items times.
Producer == 1
Consumer == 2

\* the caller's predicate: the slot is in the state it needs
ChanReady(t) == IF t = Producer THEN avail = 0 ELSE avail = 1

ChanDone(t) == IF t = Producer THEN nSent = Items ELSE Len(recvd) = Items

ChLock(t) ==
    /\ OnCpu(t)
    /\ pc[t] = "ch_lock"
    /\ mutex = None
    /\ mutex' = t
    /\ pc' = [pc EXCEPT ![t] = IF ChanReady(t) THEN "ch_move" ELSE "wait_enq"]
    /\ UNCHANGED <<poolVars, cpuVars, wqLock, waitq, avail, notifyVars, procVars, extVars>>

\* wait has returned the guard: the loop tests the predicate again
ChCheck(t) ==
    /\ OnCpu(t)
    /\ pc[t] = "ch_check"
    /\ pc' = [pc EXCEPT ![t] = IF ChanReady(t) THEN "ch_move" ELSE "wait_enq"]
    /\ UNCHANGED <<poolVars, cpuVars, cvVars, notifyVars, procVars, extVars>>

\* wait with `closure(); thread::park()` in place of park_action(closure)
ChWait_park_after_release(t) ==
    \/ add_to_wait_queue(t, "wait_drop_lock")
    \/ wait_drop_lock(t, "wait_drop_guard")
    \/ wait_drop_guard(t, "wait_sleep")
    \/ park_sleep(t, "wait_yield")
    \/ park_yield(t, "wait_relock")
    \/ wait_relock(t, "ch_check")

\* Condvar::wait called from send / recv
ChWait(t) ==
    \/ add_to_wait_queue(t, "wait_sleep")
    \/ park_sleep(t, "wait_drop_lock")
    \/ wait_drop_lock(t, "wait_drop_guard")
    \/ wait_drop_guard(t, "wait_yield")
    \/ park_yield(t, "wait_relock")
    \/ wait_relock(t, "ch_check")

\* the item goes into the slot, or out of it
ChMove(t) ==
    /\ OnCpu(t)
    /\ pc[t] = "ch_move"
    /\ IF t = Producer
       THEN /\ chanItem' = nSent + 1
            /\ nSent' = nSent + 1
            /\ avail' = 1
            /\ UNCHANGED recvd
       ELSE /\ recvd' = Append(recvd, chanItem)
            /\ avail' = 0
            /\ UNCHANGED <<chanItem, nSent>>
    /\ pc' = [pc EXCEPT ![t] = "notify_one"]
    /\ nArg' = [nArg EXCEPT ![t] = 1]
    /\ nCount' = [nCount EXCEPT ![t] = 0]
    /\ nStartQ' = [nStartQ EXCEPT ![t] = waitq]
    /\ nWoken' = [nWoken EXCEPT ![t] = <<>>]
    /\ UNCHANGED <<poolVars, cpuVars, mutex, wqLock, waitq, procVars, extNotChan>>

\* unlock; the next item, or the thread ends
ChUnlock(t) ==
    /\ OnCpu(t)
    /\ pc[t] = "ch_unlock"
    /\ mutex' = None
    /\ pc' = [pc EXCEPT ![t] = IF ChanDone(t) THEN "exit" ELSE "ch_lock"]
    /\ nStartQ' = [nStartQ EXCEPT ![t] = <<>>]
    /\ nWoken' = [nWoken EXCEPT ![t] = <<>>]
    /\ UNCHANGED <<poolVars, cpuVars, wqLock, waitq, avail, nArg, nCount, procVars, extVars>>

ChanStep(t) ==
    \/ ChLock(t)
    \/ ChWait(t)
    \/ ChCheck(t)
    \/ ChMove(t)
    \/ notify_one(t, "ch_unlock")
    \/ ChUnlock(t)
    \/ Exit(t)

\* producer and consumer are Ready, in either order; the slot is empty
InitChan ==
    /\ status = [t \in Tids |-> IF t \in {Producer, Consumer} THEN "Ready" ELSE "Unused"]
    /\ afterStop = [t \in Tids |-> "Ready"]
    /\ ctxInPool = [t \in Tids |-> t \in {Producer, Consumer}]
    /\ runq \in {<<Producer, Consumer>>, <<Consumer, Producer>>}
    /\ exitCode = [t \in Tids |-> 0]
    /\ proc = [c \in Cpus |-> None]
    /\ cpuPc = [c \in Cpus |-> "loop"]
    /\ intr = [c \in Cpus |-> FALSE]
    /\ pc = [t \in Tids |-> "ch_lock"]
    /\ mutex = None
    /\ wqLock = None
    /\ waitq = <<>>
    /\ avail = 0
    /\ nArg = [t \in Tids |-> 0]
    /\ nCount = [t \in Tids |-> 0]
    /\ nStartQ = [t \in Tids |-> <<>>]
    /\ nWoken = [t \in Tids |-> <<>>]
    /\ InitProc0
    /\ InitExt0

NextChan ==
    \/ \E c \in Cpus : CpuStep(c)
    \/ \E t \in Tids : ChanStep(t)

SpecChan == InitChan /\ [][NextChan]_vars

\* the thread has ended, or is on its way out
Finished(t) == pc[t] \in {"exit", "unreachable"}

\* ---------------------------------------------------- CPU affinity
\* Threads that only compute, some bound to a CPU.  ThreadPool::run(cpu)
\* follows the design document: the first thread of the ready queue that
\* is unbound or bound to the calling CPU.
Eligible(c) == {i \in 1..Len(runq) : affinity[runq[i]] \in {None, c}}

FirstEligible(c) == CHOOSE i \in Eligible(c) : \A j \in Eligible(c) : i <= j

\* ThreadPool::run(cpu_id) with affinity
pool_run_on(c, t) ==
    /\ Eligible(c) # {}
    /\ t = runq[FirstEligible(c)]
    /\ runq' = [i \in 1..(Len(runq) - 1) |->
                  IF i < FirstEligible(c) THEN runq[i] ELSE runq[i + 1]]
    /\ status' = [status EXCEPT ![t] = "Running"]
    /\ ctxInPool' = [ctxInPool EXCEPT ![t] = FALSE]
    /\ ranOn' = [ranOn EXCEPT ![t] = @ \cup {c}]
    /\ UNCHANGED <<afterStop, exitCode, affinity>>

\* Processor::run with `manager.run(0)`: every CPU asks as the first CPU
RunThreadAff_cpu0(c) ==
    /\ cpuPc[c] = "loop"
    /\ \E t \in Tids :
        /\ pool_run_on(1, t)
        /\ proc' = [proc EXCEPT ![c] = t]
    /\ cpuPc' = [cpuPc EXCEPT ![c] = "thread"]
    /\ intr' = [intr EXCEPT ![c] = TRUE]
    /\ UNCHANGED <<pc, cvVars, notifyVars, procVars, extOld, devVars, newVars>>

\* Processor::run, lines 61-68: inner.manager.run(inner.id) returned Some
RunThreadAff(c) ==
    /\ cpuPc[c] = "loop"
    /\ \E t \in Tids :
        /\ pool_run_on(c, t)
        /\ proc' = [proc EXCEPT ![c] = t]
    /\ cpuPc' = [cpuPc EXCEPT ![c] = "thread"]
    /\ intr' = [intr EXCEPT ![c] = TRUE]
    /\ UNCHANGED <<pc, cvVars, notifyVars, procVars, extOld, devVars, newVars>>

\* Processor::run, lines 72-76: inner.manager.run(inner.id) returned None
RunIdleAff(c) ==
    /\ cpuPc[c] = "loop"
    /\ Eligible(c) = {}
    /\ cpuPc' = [cpuPc EXCEPT ![c] = "idle"]
    /\ intr' = [intr EXCEPT ![c] = TRUE]
    /\ UNCHANGED <<poolVars, proc, pc, cvVars, notifyVars, procVars, extVars>>

\* every thread is Ready; each is unbound or bound to some CPU
InitAff ==
    /\ status = [t \in Tids |-> "Ready"]
    /\ afterStop = [t \in Tids |-> "Ready"]
    /\ ctxInPool = [t \in Tids |-> TRUE]
    /\ runq = [i \in 1..NumThreads |-> i]
    /\ exitCode = [t \in Tids |-> 0]
    /\ proc = [c \in Cpus |-> None]
    /\ cpuPc = [c \in Cpus |-> "loop"]
    /\ intr = [c \in Cpus |-> FALSE]
    /\ pc = [t \in Tids |-> "work0"]
    /\ mutex = None
    /\ wqLock = None
    /\ waitq = <<>>
    /\ avail = 0
    /\ nArg = [t \in Tids |-> 0]
    /\ nCount = [t \in Tids |-> 0]
    /\ nStartQ = [t \in Tids |-> <<>>]
    /\ nWoken = [t \in Tids |-> <<>>]
    /\ InitProc0
    /\ InitOld0
    /\ affinity \in [Tids -> {None} \cup Cpus]
    /\ ranOn = [t \in Tids |-> {}]
    /\ InitDev0
    /\ InitNew0

NextAff ==
    \/ \E c \in Cpus :
        \/ RunThreadAff(c)
        \/ RunIdleAff(c)
        \/ IdleWake(c)
        \/ StopThread(c)
        \/ Tick(c)
    \/ \E t \in Tids : RRWork(t)

SpecAff == InitAff /\ [][NextAff]_vars

\* ------------------------------------------- Device over BlockDevice
\* `impl<T: BlockDevice> Device for T` over the device of the module's
\* tests: NumBlocks blocks of BlockSize bytes.  Sequences are 1-based:
\* byte i of the code is element i + 1.  usize is UsizeBits wide.
BlockSize == 2 ^ BLOCK_SIZE_LOG2
DevSize == NumBlocks * BlockSize
UsizeMod == 2 ^ UsizeBits

\* the device and the buffer before the call
Dev0 == [i \in 1..DevSize |-> i - 1]
Buf0(len) == [j \in 1..len |-> 100 + j]

\* BlockDevice::read_at(block_id, buf), lines 99-106: the block's bytes, or
\* failure past the last block
BlockReadOk(block) == block < NumBlocks
BlockRead(d, block) == [k \in 1..BlockSize |-> d[block * BlockSize + k]]

\* BlockDevice::write_at(block_id, buf), lines 107-114
BlockWrite(d, block, data) ==
    [i \in 1..DevSize |->
        IF i > block * BlockSize /\ i <= (block + 1) * BlockSize
        THEN data[i - block * BlockSize]
        ELSE d[i]]

\* BlockIter::next: the part of the block at `begin` that lies before `end`
RangeBlock(begin) == begin \div BlockSize
RangeBegin(begin) == begin % BlockSize
RangeEnd(begin, end) ==
    IF RangeBlock(begin) = end \div BlockSize THEN end % BlockSize ELSE BlockSize
RangeIsFull(begin, end) == RangeEnd(begin, end) - RangeBegin(begin) = BlockSize

\* read_at, lines 43-59: the loop over the blocks from `begin`
RECURSIVE ReadLoop(_, _, _, _, _)
ReadLoop(begin, end, offset, b, d) ==
    IF begin >= end THEN [ret |-> Len(b), buf |-> b]
    ELSE LET block == RangeBlock(begin)
             rb == RangeBegin(begin)
             re == RangeEnd(begin, end)
             len == block * BlockSize + rb - offset
             block_buf == BlockRead(d, block)
             copied == [j \in 1..Len(b) |->
                          IF j > len /\ j <= len + (re - rb)
                          THEN block_buf[rb + (j - len)]
                          ELSE b[j]]
         IN  IF ~BlockReadOk(block) THEN [ret |-> len, buf |-> b]
             ELSE ReadLoop(begin + (re - rb), end, offset, copied, d)

\* write_at, lines 70-88: the loop over the blocks from `begin`
RECURSIVE WriteLoop(_, _, _, _, _)
WriteLoop(begin, end, offset, b, d) ==
    IF begin >= end THEN [ret |-> Len(b), dev |-> d]
    ELSE LET block == RangeBlock(begin)
             rb == RangeBegin(begin)
             re == RangeEnd(begin, end)
             len == block * BlockSize + rb - offset
             full == [k \in 1..BlockSize |-> b[len + k]]
             block_buf == [k \in 1..BlockSize |->
                             IF k > rb /\ k <= re
                             THEN b[len + (k - rb)]
                             ELSE BlockRead(d, block)[k]]
         IN  IF ~BlockReadOk(block) THEN [ret |-> len, dev |-> d]
             ELSE WriteLoop(begin + (re - rb), end, offset, b,
                            BlockWrite(d, block,
                                IF RangeIsFull(begin, end) THEN full ELSE block_buf))

\* `end: offset + buf.len()`, lines 38 and 65: the sum overflows usize
Overflows(offset, len) == offset + len >= UsizeMod

\* Device::read_at(offset, buf)
read_at ==
    /\ devOp = "read"
    /\ devRet = <<"none">>
    /\ IF Overflows(devOff, Len(buf)) /\ build = "debug"
       THEN /\ devRet' = <<"panic">>
            /\ UNCHANGED buf
       ELSE LET r == ReadLoop(devOff, (devOff + Len(buf)) % UsizeMod, devOff, buf, dev)
            IN  /\ devRet' = <<"Some", r.ret>>
                /\ buf' = r.buf
    /\ UNCHANGED <<poolVars, cpuVars, pc, cvVars, notifyVars, procVars, extOld,
                   moreNotDev, dev, devOff, devOp, build>>

\* Device::write_at(offset, buf)
write_at ==
    /\ devOp = "write"
    /\ devRet = <<"none">>
    /\ IF Overflows(devOff, Len(buf)) /\ build = "debug"
       THEN /\ devRet' = <<"panic">>
            /\ UNCHANGED dev
       ELSE LET r == WriteLoop(devOff, (devOff + Len(buf)) % UsizeMod, devOff, buf, dev)
            IN  /\ devRet' = <<"Some", r.ret>>
                /\ dev' = r.dev
    /\ UNCHANGED <<poolVars, cpuVars, pc, cvVars, notifyVars, procVars, extOld,
                   moreNotDev, buf, devOff, devOp, build>>

\* one call, with any offset and any buffer of up to MaxBufLen bytes
InitDev ==
    /\ InitCv
    /\ InitProc0
    /\ InitOld0
    /\ InitAff0
    /\ InitNew0
    /\ dev = Dev0
    /\ \E len \in 0..MaxBufLen : buf = Buf0(len)
    /\ devOff \in 0..(UsizeMod - 1)
    /\ devOp \in {"read", "write"}
    /\ devRet = <<"none">>
    /\ build \in {"debug", "release"}

NextDev == read_at \/ write_at

SpecDev == InitDev /\ [][NextDev]_vars

\* min(len, max(0, S - offset))
InsideLen(offset, len) ==
    Min(len, IF DevSize >= offset THEN DevSize - offset ELSE 0)

\* Fairness.  Each CPU keeps executing Processor::run and keeps receiving
\* timer interrupts, and a thread that is given the CPU again and again
\* eventually executes its next step (a time slice is longer than a step).
Fairness ==
    /\ \A c \in Cpus : WF_vars(RunThread(c) \/ RunIdle(c) \/ IdleWake(c) \/ StopThread(c))
    /\ \A c \in Cpus : WF_vars(Tick(c))
    /\ \A t \in Tids : SF_vars(ThreadStep(t))

FairSpec == Spec /\ Fairness

\* ------------------------------------------------------------ claims
\* The thread has been marked Sleeping: it is parked, or it is still on
\* its CPU and pool.stop will park it.
MarkedSleeping(t) ==
    \/ status[t] = "Sleeping"
    \/ status[t] = "Running" /\ afterStop[t] = "Sleeping"

\* Positions inside Condvar::wait after the handle was queued
InWait(t) ==
    pc[t] \in {"wait_sleep", "wait_drop_lock", "wait_drop_guard", "wait_yield", "wait_relock"}

\* Positions from the park action to the wake-up
InPark(t) == pc[t] \in {"wait_drop_guard", "wait_yield", "wait_relock"}

\* C1: no Tid is held in the proc slot of more than one Processor.
C1_RunningExclusive ==
    \A c1, c2 \in Cpus : (c1 # c2 /\ proc[c1] # None) => proc[c1] # proc[c2]

C1_Witness ==
    \E c1, c2 \in Cpus :
        /\ c1 # c2
        /\ cpuPc[c1] = "thread" /\ cpuPc[c2] = "thread"
        /\ proc[c1] # None /\ proc[c2] # None
        /\ runq # <<>>

\* C2: the Context of every live thread has exactly one holder: the pool
\* table when the thread is Ready or Sleeping, one proc slot when Running.
Holders(t) ==
    (IF ctxInPool[t] THEN 1 ELSE 0) + Cardinality({c \in Cpus : proc[c] = t})

C2_ContextLinear ==
    \A t \in Tids :
        status[t] \in {"Ready", "Running", "Sleeping"} =>
            /\ Holders(t) = 1
            /\ ctxInPool[t] <=> status[t] \in {"Ready", "Sleeping"}

C2_Witness ==
    \E t, u \in Tids :
        /\ status[t] = "Sleeping" /\ ctxInPool[t]
        /\ status[u] = "Running" /\ ~ctxInPool[u] /\ \E c \in Cpus : proc[c] = u

\* C3: no lost wakeup.  When every notifier notifies at least one waiter
\* (no notify_n(0)), no waiter stays inside wait for ever while the
\* predicate it waits for is true.
C3_NoLostWakeup ==
    [](\A t \in Tids : pc[t] = "notify_n" => nArg[t] >= 1)
        => \A t \in Tids : []<>(~(InWait(t) /\ avail > 0))

C3_Witness ==
    \E t, u \in Tids :
        /\ pc[t] = "w_check" /\ avail > 0
        /\ pc[u] = "wait_relock" /\ status[u] = "Sleeping"

\* C4: the wait-queue lock and the mutex are held from the enqueue to the
\* park action, which runs with the caller marked Sleeping and queued; a
\* handle seen in the queue by anyone else is the handle of a thread
\* marked Sleeping.
C4_SleepingBeforeRelease ==
    \A t \in Tids :
        /\ pc[t] = "wait_sleep" => (wqLock = t /\ mutex = t /\ t \in Range(waitq))
        /\ pc[t] = "wait_drop_lock" =>
              (wqLock = t /\ mutex = t /\ t \in Range(waitq) /\ MarkedSleeping(t))
        /\ (t \in Range(waitq) /\ wqLock # t) => MarkedSleeping(t)

C4_Witness ==
    \E t \in Tids : t \in Range(waitq) /\ wqLock = None /\ pc[t] = "wait_drop_guard"

\* C5: a thread whose handle was popped and unparked between its enqueue
\* and its park does not stay Sleeping: the unpark is kept as the thread's
\* one token and the park returns.
C5_TokenNotLost ==
    \A t \in Tids :
        (pc[t] \in {"wait_drop_lock", "wait_drop_guard", "wait_yield", "wait_relock"}
            /\ t \notin Range(waitq)) => ~MarkedSleeping(t)

C5_Witness ==
    \E t \in Tids :
        /\ pc[t] = "wait_yield"
        /\ t \notin Range(waitq)
        /\ status[t] = "Running" /\ afterStop[t] = "Ready"

\* C6: a notify on an empty queue changes nothing, and a thread blocked in
\* wait is unblocked only by a step that removes its handle from the queue.
C6_Memoryless ==
    [][ /\ (waitq = <<>> /\ \E t \in Tids :
                pc[t] \in {"notify_one", "notify_all", "notify_n"} /\ pc'[t] # pc[t])
            => UNCHANGED <<poolVars, waitq>>
        /\ \A t \in Tids :
            (InWait(t) /\ MarkedSleeping(t) /\ ~MarkedSleeping(t)')
                => (t \in Range(waitq) /\ t \notin Range(waitq')) ]_vars

C6_Witness ==
    \E t, u \in Tids :
        /\ pc[t] = "unreachable" /\ nArg[t] # 0 /\ nCount[t] = 0
        /\ pc[u] = "wait_relock" /\ status[u] = "Sleeping" /\ u \in Range(waitq)
        /\ \A v \in Tids : nCount[v] = 0

\* C7: notify_n(n) (notify_one: n = 1) on a queue of k handles removes and
\* unparks the first min(n, k) in FIFO order, returns min(n, k) and leaves
\* the rest in order.
C7_NotifyFifo ==
    \A t \in Tids :
        LET k == Len(nStartQ[t])
            m == Min(nArg[t], k)
        IN  /\ (pc[t] \in {"notify_one", "notify_n"}) =>
                  /\ nWoken[t] = SubSeq(nStartQ[t], 1, nCount[t])
                  /\ waitq = SubSeq(nStartQ[t], nCount[t] + 1, k)
            /\ (pc[t] = "n_unlock" /\ nArg[t] # All) =>
                  /\ nCount[t] = m
                  /\ nWoken[t] = SubSeq(nStartQ[t], 1, m)
                  /\ waitq = SubSeq(nStartQ[t], m + 1, k)
                  /\ \A i \in 1..m : ~MarkedSleeping(nStartQ[t][i])

C7_Witness ==
    \E t \in Tids :
        /\ pc[t] = "n_unlock" /\ nArg[t] = 1
        /\ Len(nStartQ[t]) = 2 /\ Len(waitq) = 1

\* C8: when wait returns the caller holds the mutex, and from the park
\* action to the re-acquisition it holds neither the mutex nor the
\* wait-queue lock.
C8_WaitReturnsLocked ==
    \A t \in Tids :
        /\ pc[t] = "w_check" => mutex = t
        /\ pc[t] \in {"wait_yield", "wait_relock"} => (mutex # t /\ wqLock # t)

C8_Witness ==
    \E t \in Tids : pc[t] = "w_check" /\ mutex = t /\ t \notin Range(waitq)

\* C9: the parent's sys_wait4 returns the child's pid at most once, and
\* once it has removed the child's entry no entry for the child comes back.
C9_ReapedOnce ==
    LET reaped == {i \in DOMAIN w4Ret : w4Ret[i][1] = ChildPid}
    IN  /\ Cardinality(reaped) <= 1
        /\ reaped # {} => exitCodeMap = {}

\* C10: the child's only thread has called sys_exit(c) and the parent has
\* called sys_wait4(-1): when nothing is left to run, the parent's call has
\* returned the child's pid with status c.
Quiescent == runq = <<>> /\ \A c \in Cpus : proc[c] = None

C10_WaitReturns ==
    \A t \in ChildTids :
        (Quiescent /\ pc[t] = "unreachable") => w4Ret = << <<ChildPid, exitArg[t]>> >>

\* The step calls ThreadPool::exit: the end of sys_exit, or the loop of
\* sys_exit_group or sys_kill over proc.threads.
ExitCall ==
    \E u \in Tids :
        \/ pc[u] = "exit" /\ pc'[u] = "unreachable"
        \/ pc[u] = "c_main" /\ pc'[u] = "eg_notify"
        \/ pc[u] = "kill_exit_all" /\ pc'[u] = "kill_notify"

PopStep(cv) == cvq[cv] # <<>> /\ cvq'[cv] = Tail(cvq[cv])

\* C12: unpark is safe in every thread state: it makes a Sleeping thread
\* Ready with one runqueue entry, and on a Ready, Running or Exited thread
\* it changes no status, adds no runqueue entry and moves no context.
C12_UnparkSafe ==
    [][\A cv \in Cvs :
        PopStep(cv) =>
            LET h == Head(cvq[cv])[1]
            IN  /\ status[h] = "Sleeping" =>
                    (status' = [status EXCEPT ![h] = "Ready"] /\ runq' = Append(runq, h))
                /\ status[h] \in {"Ready", "Running", "Exited"} =>
                    (status' = status /\ runq' = runq)
                /\ ctxInPool' = ctxInPool /\ exitCode' = exitCode]_vars

\* the driver's second notify has unparked, through the handle wait_any left
\* in the other queue, the waiter that was running again on the other CPU
C12_Witness ==
    /\ Len(log) = 2 /\ log[2] = "Running"
    /\ pc[Waiter0] = "exit" /\ OnCpu(Waiter0) /\ HandlesOf(Waiter0) = {}
    /\ status[Waiter0] = "Running" /\ afterStop[Waiter0] = "Ready"

\* C13: every queued handle refers to the incarnation that holds its Tid
\* now (the slot is not given to a new thread while a handle remains), and
\* a notify that pops the handle of an Exited thread changes no thread.
C13_StaleHandleNoop ==
    /\ [](\A cv \in Cvs : \A i \in 1..Len(cvq[cv]) : cvq[cv][i][2] = gen[cvq[cv][i][1]])
    /\ [][\A cv \in Cvs :
            (PopStep(cv) /\ status[Head(cvq[cv])[1]] = "Exited") => UNCHANGED poolVars]_vars

\* the handle of an exited thread was popped after a new thread had been
\* added (to another slot)
C13_Witness ==
    /\ \E i, j \in 1..Len(log) : i < j /\ log[i] = "clone" /\ log[j] = "Exited"
    /\ status[Waiter0] = "Exited"
    /\ gen[Waiter0] = 1
    /\ \E u \in Tids \ {Waiter0, Driver} : gen[u] = 1 /\ status[u] # "Unused"

\* C14  Round-robin fairness.  N Ready threads of equal priority share one
\* CPU, none blocks or exits, and the slice is Slice ticks.  pool.run
\* returns the threads in the FIFO order of the ready queue, turn after
\* turn, and once N * Slice ticks have been delivered every one of the N
\* threads has been selected at least once.
C14_RoundRobin ==
    LET n == Cardinality(RRThreads)
    IN  /\ \A i \in 1..Len(ranOrder) : ranOrder[i] = ((i - 1) % n) + 1
        /\ ticks >= n * Slice => RRThreads \subseteq Range(ranOrder)

\* Three threads; the third is selected for the first time with
\* 2 * Slice ticks delivered, and 3 * Slice ticks have been delivered
\* while it runs.
C14_Witness ==
    /\ Cardinality(RRThreads) = NumThreads
    /\ ticks = NumThreads * Slice
    /\ ranOrder = <<1, 2, 3>>
    /\ cpuPc[RRCpu] = "stop"

\* C15  Tick preemption.  A Running thread whose slice has reached zero
\* leaves the CPU through tick -> yield_now -> loop -> pool.stop no later
\* than one tick after the tick that used the slice up: no thread is
\* ever more than one tick past the end of its slice.
C15_PreemptWithinOneTick ==
    \A t \in Tids : slice[t] >= -1

\* A thread was switched out by the tick that used its slice up and is
\* back in the ready queue while the next thread runs.
C15_Witness ==
    \E t \in Tids :
        /\ slice[t] = 0
        /\ status[t] = "Ready"
        /\ t \in Range(runq)
        /\ ticks > Slice
        /\ cpuPc[RRCpu] = "thread"
        /\ proc[RRCpu] # t

\* C16  invoke_on_allcpu(f, arg, wait = true) returns only after f(arg)
\* has been invoked on every CPU enumerated by Cpu::foreach: when the
\* call has returned, every CPU's record of function calls holds the
\* call's event.
C16_ReturnsAfterAll ==
    \A t \in Callers :
        (ipiWait[t] /\ pc[t] \in {"exit", "unreachable"})
            => \A c \in Cpus : t \in Range(ranLog[c])

\* A waiting call has returned while the event of the other call, which
\* does not wait, is still pending on some CPU.
C16_Witness ==
    \E t, u \in Callers :
        /\ ipiWait[t] /\ ~ipiWait[u]
        /\ pc[t] = "exit"
        /\ pc[u] \in {"exit", "unreachable"}
        /\ \A c \in Cpus : t \in Range(ranLog[c])
        /\ \E c \in Cpus : u \notin Range(ranLog[c])

\* C17  On each CPU the events enqueued by invoke_on_allcpu are executed
\* in the order they were enqueued on that CPU, also when the calls of
\* several CPUs interleave: the CPU's record of function calls is always
\* a prefix of its record of enqueues.
C17_FifoPerCpu ==
    \A c \in Cpus :
        /\ Len(ranLog[c]) <= Len(enqLog[c])
        /\ ranLog[c] = SubSeq(enqLog[c], 1, Len(ranLog[c]))

\* Two concurrent calls were enqueued in opposite orders on the two CPUs,
\* and each CPU has run both events in its own order.
C17_Witness ==
    /\ ranLog[1] = <<1, 2>>
    /\ ranLog[2] = <<2, 1>>

\* C18  For a semaphore created with count c, whose users each acquire,
\* enter the critical section and release, at most c threads are inside
\* the critical section in every reachable state, on any number of CPUs
\* and under any interleaving, and the count never goes below zero.
C18_SemaphoreBound ==
    /\ Cardinality(InCs) <= semInit
    /\ avail >= 0
    /\ avail + Cardinality(InCs) = semInit

\* Count 1 and three threads: one is in the critical section, one has
\* left, and one that had to wait has been woken and is about to test
\* the count again, which is zero.
C18_Witness ==
    /\ semInit = 1
    /\ avail = 0
    /\ \E a, b, d \in Tids :
        /\ pc[a] = "cs"
        /\ pc[b] \in {"exit", "unreachable"}
        /\ pc[d] = "sem_check"

HoldsNoIrqLock(t) == wqLock = t \/ \E cv \in Cvs : cvLock[cv] = t

\* C20  In every reachable state a CPU that is inside a scheduling
\* decision (Processor::run around pool.run, switch_to and pool.stop, or
\* yield_now making its switch) or whose running thread holds a
\* SpinNoIrqLock, a condvar wait-queue lock included, has its interrupts
\* disabled; in Processor::run they are enabled only during the idle
\* wait-for-interrupt.
C20_IrqOffInScheduler ==
    \A c \in Cpus :
        /\ cpuPc[c] \in {"loop", "stop"} => ~intr[c]
        /\ (cpuPc[c] = "thread" /\ HoldsNoIrqLock(proc[c])) => ~intr[c]

\* C21  A thread with affinity to CPU i is only ever returned by
\* pool.run(i), never by pool.run(j) for another j, so it is only ever
\* Running in Processor i's `proc` slot; a thread without affinity may be
\* returned to any CPU.
C21_Affinity ==
    \A t \in Tids :
        affinity[t] # None =>
            /\ ranOn[t] \subseteq {affinity[t]}
            /\ \A c \in Cpus : proc[c] = t => c = affinity[t]

\* An unbound thread has been returned to every CPU, a thread bound to
\* CPU 2 has run there only, and CPU 1 idles although that bound thread
\* is Ready at the front of the queue.
C21_Witness ==
    \E t, u \in Tids :
        /\ affinity[t] = None /\ ranOn[t] = Cpus
        /\ affinity[u] = 2 /\ ranOn[u] = {2}
        /\ runq # <<>> /\ Head(runq) = u
        /\ cpuPc[1] = "idle"

\* C22  The status sys_wait4 writes to wstatus for a child is the low 8
\* bits of the code the child passed to sys_exit: for every code c the
\* stored status is c mod 256.
C22_WstatusLow8 ==
    \A i \in DOMAIN w4Ret :
        w4Ret[i][1] = ChildPid => w4Ret[i][2] = exitArg[ChildPid] % 256

\* C23  Device::read_at(offset, buf) over a BlockDevice of S bytes, for
\* every offset and buffer length: the result is Some(n) with
\* n = min(len, max(0, S - offset)), buf[0..n] holds the device bytes
\* offset..offset+n, buf[n..] is unchanged and the device is unchanged.
C23_ReadAt ==
    (devOp = "read" /\ devRet # <<"none">>) =>
        LET len == Len(buf)
            n == InsideLen(devOff, len)
        IN  /\ devRet = <<"Some", n>>
            /\ \A j \in 1..len :
                buf[j] = IF j <= n THEN Dev0[devOff + j] ELSE Buf0(len)[j]
            /\ dev = Dev0

\* C24  Device::write_at(offset, buf) over a BlockDevice of S bytes, for
\* every offset and buffer length: the result is Some(n) with
\* n = min(len, max(0, S - offset)), afterwards the device bytes
\* offset..offset+n are buf[0..n], and every other device byte, the rest
\* of partially written blocks included, is unchanged.
C24_WriteAt ==
    (devOp = "write" /\ devRet # <<"none">>) =>
        LET len == Len(buf)
            n == InsideLen(devOff, len)
        IN  /\ devRet = <<"Some", n>>
            /\ \A i \in 1..DevSize :
                dev[i] = IF i > devOff /\ i <= devOff + n
                         THEN buf[i - devOff]
                         ELSE Dev0[i]
            /\ buf = Buf0(len)

\* steps of Processor::run on CPU c: pool.run returns Some / pool.stop
RunCall(c) == cpuPc[c] = "loop" /\ cpuPc'[c] = "thread"
StopCall(c) == cpuPc[c] = "stop" /\ cpuPc'[c] = "loop"

\* C25  On each CPU every pool.run that returns Some((tid, ctx)) is
\* followed, before the CPU's next pool.run, by exactly one
\* pool.stop(tid, ctx) with the same tid: the slot is empty when pool.run
\* is called, is filled by it, changes at no other step than the
\* pool.stop that hands back the context of the thread in it, and is
\* Some exactly between the two calls, None while the processor chooses
\* or idles.
C25_RunStopPaired ==
    /\ [](\A c \in Cpus : proc[c] # None <=> cpuPc[c] \in {"thread", "stop"})
    /\ [][\A c \in Cpus :
            /\ RunCall(c) =>
                /\ proc[c] = None /\ proc'[c] # None
                /\ status[proc'[c]] = "Ready" /\ status'[proc'[c]] = "Running"
                /\ ctxInPool[proc'[c]] /\ ~ctxInPool'[proc'[c]]
            /\ StopCall(c) =>
                /\ proc[c] # None /\ proc'[c] = None
                /\ ~ctxInPool[proc[c]] /\ ctxInPool'[proc[c]]
                /\ status[proc[c]] = "Running" /\ status'[proc[c]] # "Running"
            /\ proc'[c] # proc[c] => RunCall(c) \/ StopCall(c)
            /\ \A t \in Tids :
                (ctxInPool'[t] # ctxInPool[t]) =>
                    \E d \in Cpus : (RunCall(d) /\ proc'[d] = t)
                                    \/ (StopCall(d) /\ proc[d] = t)]_vars

\* A CPU is choosing with an empty slot after it has run a thread into
\* Condvar::wait and stopped it (the thread sleeps with its context in the
\* pool), while the other CPU is between its pool.run and pool.stop.
C25_Witness ==
    \E c, d \in Cpus :
    \E t \in Tids :
        /\ cpuPc[c] = "loop" /\ proc[c] = None
        /\ status[t] = "Sleeping" /\ ctxInPool[t] /\ pc[t] = "wait_relock"
        /\ cpuPc[d] = "stop" /\ proc[d] # None /\ proc[d] # t

\* ------------------------------------- what pool.stop makes of a thread
\* The condvar programs of Spec, with a record of what each thread has
\* asked of the pool since Processor::run last switched it in.

\* Processor::run, lines 61-68: the thread is switched in
RunThreadS(c) ==
    /\ cpuPc[c] = "loop"
    /\ \E t \in Tids :
        /\ pool_run(t)
        /\ proc' = [proc EXCEPT ![c] = t]
        /\ called' = [called EXCEPT ![t] = "none"]
    /\ cpuPc' = [cpuPc EXCEPT ![c] = "thread"]
    /\ intr' = [intr EXCEPT ![c] = TRUE]
    /\ UNCHANGED <<pc, cvVars, notifyVars, procVars, extOld, moreNotStop>>

\* thread::park_action, first half: manager.sleep(current)
park_sleepS(t, to) ==
    /\ Goto(t, "wait_sleep", to)
    /\ pool_sleep(t)
    /\ called' = [called EXCEPT ![t] = "park"]
    /\ UNCHANGED <<cpuVars, cvVars, notifyVars, procVars, extOld, moreNotStop>>

\* Condvar::wait
WaitS(t) ==
    \/ add_to_wait_queue(t, "wait_sleep")
    \/ park_sleepS(t, "wait_drop_lock")
    \/ wait_drop_lock(t, "wait_drop_guard")
    \/ wait_drop_guard(t, "wait_yield")
    \/ park_yield(t, "wait_relock")
    \/ wait_relock(t, "w_check")

\* sys_exit without `processor().manager().exit(tid, exit_code)`: the
\* thread only yields.
ExitS_yield_only(t) ==
    /\ Goto(t, "exit", "unreachable")
    /\ yield_now(CpuOf(t))
    /\ called' = [called EXCEPT ![t] = "exit"]
    /\ UNCHANGED <<poolVars, cvVars, notifyVars, procVars, extOld, moreNotStop>>

\* sys_exit, lines 269-270: manager().exit(tid, exit_code); yield_now()
ExitS(t) ==
    /\ Goto(t, "exit", "unreachable")
    /\ pool_exit(t, exitArg[t])
    /\ yield_now(CpuOf(t))
    /\ called' = [called EXCEPT ![t] = "exit"]
    /\ UNCHANGED <<cvVars, notifyVars, procVars, extOld, moreNotStop>>

NextStop ==
    \/ \E c \in Cpus :
        \/ RunThreadS(c)
        \/ RunIdle(c)
        \/ IdleWake(c)
        \/ StopThread(c)
        \/ Tick(c)
    \/ \E t \in Tids :
        \/ WLock(t)
        \/ WCheck(t)
        \/ WUnlock(t)
        \/ WaitS(t)
        \/ NSet(t)
        \/ notify_one(t, "n_unlock")
        \/ notify_all(t, "n_unlock")
        \/ notify_n(t, "n_unlock")
        \/ NUnlock(t)
        \/ ExitS(t)

SpecStop == Init /\ [][NextStop]_vars

Entries(t) == Cardinality({i \in 1..Len(runq) : runq[i] = t})

\* C27  A thread has a runqueue entry if and only if it is Ready, and then
\* exactly one: a wakeup through a second handle, or one that finds the
\* thread already Ready, adds no entry, and a Running, Sleeping or Exited
\* thread has none.
C27_OneEntryIffReady ==
    \A t \in Tids : Entries(t) = IF status[t] = "Ready" THEN 1 ELSE 0

\* wait_any left a handle in each of two queues; the first notify found
\* the waiter Sleeping and made it Ready, the second popped the other
\* handle while the waiter was still Ready, and the waiter has one entry.
C27_Witness ==
    /\ log = <<"Sleeping", "Ready">>
    /\ status[Waiter0] = "Ready"
    /\ Entries(Waiter0) = 1
    /\ HandlesOf(Waiter0) = {}

\* ------------------------------------------- clear-child-tid on exit
\* The process syscalls of SpecProc, with the address sys_clone gives the
\* new thread as its clear_child_tid.  The address of thread u's tid word
\* is u.

\* sys_clone, lines 43-51: the new thread keeps child_tid as its
\* clear_child_tid and the tid is written to the address
sys_cloneF(t) ==
    /\ OnCpu(t)
    /\ pc[t] = "c_main"
    /\ \E u \in ChildTids :
        /\ status[u] = "Unused"
        /\ \A v \in ChildTids : status[v] = "Unused" => u <= v
        /\ pool_add(u)
        /\ threads' = Append(threads, u)
        /\ clear_child_tid' = [clear_child_tid EXCEPT ![u] = u]
        /\ word' = [word EXCEPT ![u] = u]
    /\ UNCHANGED <<cpuVars, pc, cvVars, notifyVars, exitCodeMap, isLast, exitArg,
                   w4Target, w4Ret, nCalls, futexWake, extOld, moreNotFutex>>

\* sys_exit, lines 248-254
sys_exit_notifyF(t) ==
    /\ Goto(t, "exit_notify", "exit_futex")
    /\ IF isLast[t]
       THEN NotifyParent(t, exitArg[t])
       ELSE UNCHANGED <<poolVars, cpuVars, cvVars, notifyVars, procVars, extVars>>

\* sys_exit, lines 260-267: write 0 to the address and notify_one on its futex
sys_exit_futex(t) ==
    /\ Goto(t, "exit_futex", "exit")
    /\ IF clear_child_tid[t] # 0
       THEN /\ word' = [word EXCEPT ![clear_child_tid[t]] = 0]
            /\ futexWake' = [futexWake EXCEPT ![clear_child_tid[t]] = @ + 1]
       ELSE UNCHANGED <<word, futexWake>>
    /\ UNCHANGED <<poolVars, cpuVars, cvVars, notifyVars, procVars, clear_child_tid,
                   extOld, moreNotFutex>>

FutexStep(t) ==
    \/ sys_fork(t)
    \/ sys_cloneF(t)
    \/ ParentCall(t, {"wait4_any", "kill"}, 1)
    \/ sys_wait4(t)
    \/ _wait(t)
    \/ sys_exit_retain(t)
    \/ sys_exit_notifyF(t)
    \/ sys_exit_futex(t)
    \/ sys_exit_group_exit(t)
    \/ sys_exit_group_notify(t)
    \/ sys_exit_group_yield(t)
    \/ sys_kill_exit(t)
    \/ sys_kill_notify(t)
    \/ Exit(t)

NextFutex ==
    \/ \E c \in Cpus : CpuStep(c)
    \/ \E t \in Tids : FutexStep(t)

SpecFutex == InitProc /\ [][NextFutex]_vars

\* C28  Every thread that is Exited and has a clear_child_tid has had the
\* clear-child-tid futex wake: 0 written to the address and a notify_one
\* made on the futex of the address, whichever of sys_exit, sys_exit_group
\* and sys_kill ended it.
C28_ExitWakesFutex ==
    \A t \in Tids :
        (status[t] = "Exited" /\ clear_child_tid[t] # 0) =>
            /\ word[clear_child_tid[t]] = 0
            /\ futexWake[clear_child_tid[t]] >= 1

\* ------------------------------------------------------- lock order
\* wait-queue locks the thread holds (SpinNoIrqLock guards it has not dropped)
HeldWq(t) == {cv \in Cvs : cvLock[cv] = t}

\* the wait-queue lock the thread is spinning for in wait_any, lines 48-49
WantsWq(t) ==
    IF pc[t] = "any_enq1" THEN {order[t][1]}
    ELSE IF pc[t] = "any_enq2" THEN {order[t][2]}
    ELSE {}

\* t cannot go on before u releases a wait-queue lock
WaitsFor(t, u) == OnCpu(t) /\ WantsWq(t) \cap HeldWq(u) # {}

\* the thread is at a `mutex.lock()` of the waited-on mutex
AtMutexLock(t) == pc[t] \in {"w_lock", "n_lock", "wait_relock"}

\* C29  Locks are taken in the order waited-on mutex, wait-queue lock,
\* ThreadPool lock: no thread that is about to take the waited-on mutex
\* holds a wait-queue lock, the pool's lock is taken and released inside
\* one pool call, and so no two threads wait for each other's locks.
C29_LockOrderNoDeadlock ==
    /\ \A t \in Tids : AtMutexLock(t) => (wqLock # t /\ HeldWq(t) = {})
    /\ \A t, u \in Tids : ~(t # u /\ WaitsFor(t, u) /\ WaitsFor(u, t))

\* ------------------------------------ yield_now and the interrupt flag
\* Threads that call Processor::yield_now themselves, with interrupts
\* enabled or disabled, MaxYields times each, and are preempted by the
\* timer in between.  `flags` is the local variable of yield_now; atCall
\* and atRet record the interrupt state on entry and on return.
FlagOf(b) == IF b THEN "enabled" ELSE "disabled"

\* the caller, before the call: it leaves interrupts enabled or disables them
IrqChoose(t) ==
    /\ Goto(t, "i_next", "i_yield")
    /\ nYield[t] < MaxYields
    /\ nYield' = [nYield EXCEPT ![t] = @ + 1]
    /\ \E b \in BOOLEAN : intr' = [intr EXCEPT ![CpuOf(t)] = b]
    /\ UNCHANGED <<poolVars, proc, cpuPc, cvVars, notifyVars, procVars,
                   flags, atCall, atRet, viaTick, extOld, moreNotIrq>>

\* yield_now with `interrupt::disable(); let flags = interrupt::store()`:
\* the flag is read after interrupts are disabled.
YieldCall_store_after_disable(t) ==
    /\ Goto(t, "i_yield", "i_back")
    /\ flags' = [flags EXCEPT ![t] = "disabled"]
    /\ atCall' = [atCall EXCEPT ![t] = FlagOf(intr[CpuOf(t)])]
    /\ atRet' = [atRet EXCEPT ![t] = "none"]
    /\ viaTick' = [viaTick EXCEPT ![t] = FALSE]
    /\ yield_now(CpuOf(t))
    /\ UNCHANGED <<poolVars, cvVars, notifyVars, procVars, nYield, extOld, moreNotIrq>>

\* Processor::yield_now, lines 92-98: flags = disable_and_store(); switch_to
\* the loop context
YieldCall(t) ==
    /\ Goto(t, "i_yield", "i_back")
    /\ flags' = [flags EXCEPT ![t] = FlagOf(intr[CpuOf(t)])]
    /\ atCall' = [atCall EXCEPT ![t] = FlagOf(intr[CpuOf(t)])]
    /\ atRet' = [atRet EXCEPT ![t] = "none"]
    /\ viaTick' = [viaTick EXCEPT ![t] = FALSE]
    /\ yield_now(CpuOf(t))
    /\ UNCHANGED <<poolVars, cvVars, notifyVars, procVars, nYield, extOld, moreNotIrq>>

\* the caller, after the call: it enables interrupts again if it had
\* disabled them
IrqBack(t) ==
    /\ Goto(t, "i_back", "i_next")
    /\ intr' = [intr EXCEPT ![CpuOf(t)] = TRUE]
    /\ UNCHANGED <<poolVars, proc, cpuPc, cvVars, notifyVars, procVars, irqVars,
                   extOld, moreNotIrq>>

IrqDone(t) ==
    /\ Goto(t, "i_next", "exit")
    /\ nYield[t] = MaxYields
    /\ UNCHANGED <<poolVars, cpuVars, cvVars, notifyVars, procVars, extVars>>

\* Processor::tick, lines 119-124: the timer interrupt arrives while a
\* thread runs with interrupts enabled; the handler runs with interrupts
\* disabled and calls yield_now
TickI(c) ==
    /\ cpuPc[c] = "thread"
    /\ intr[c]
    /\ flags' = [flags EXCEPT ![proc[c]] = "disabled"]
    /\ atCall' = [atCall EXCEPT ![proc[c]] = "disabled"]
    /\ atRet' = [atRet EXCEPT ![proc[c]] = "none"]
    /\ viaTick' = [viaTick EXCEPT ![proc[c]] = TRUE]
    /\ yield_now(c)
    /\ UNCHANGED <<poolVars, pc, cvVars, notifyVars, procVars, nYield, extOld, moreNotIrq>>

\* Processor::run, lines 61-68, and yield_now, line 99: the thread is
\* switched in; one that is inside yield_now does restore(flags) and
\* returns, and when the caller was Processor::tick the interrupt return
\* that follows enables interrupts.  A thread that has not run yet starts
\* with interrupts enabled.
RunThreadI(c) ==
    /\ cpuPc[c] = "loop"
    /\ \E t \in Tids :
        /\ pool_run(t)
        /\ proc' = [proc EXCEPT ![c] = t]
        /\ atRet' = [atRet EXCEPT ![t] = flags[t]]
        /\ flags' = [flags EXCEPT ![t] = "none"]
        /\ intr' = [intr EXCEPT ![c] =
                        flags[t] = "none" \/ viaTick[t] \/ flags[t] = "enabled"]
    /\ cpuPc' = [cpuPc EXCEPT ![c] = "thread"]
    /\ UNCHANGED <<pc, cvVars, notifyVars, procVars, atCall, viaTick, nYield,
                   extOld, moreNotIrq>>

InitIrq ==
    /\ status = [t \in Tids |-> "Ready"]
    /\ afterStop = [t \in Tids |-> "Ready"]
    /\ ctxInPool = [t \in Tids |-> TRUE]
    /\ runq = [i \in 1..NumThreads |-> i]
    /\ exitCode = [t \in Tids |-> 0]
    /\ proc = [c \in Cpus |-> None]
    /\ cpuPc = [c \in Cpus |-> "loop"]
    /\ intr = [c \in Cpus |-> FALSE]
    /\ pc = [t \in Tids |-> "i_next"]
    /\ mutex = None
    /\ wqLock = None
    /\ waitq = <<>>
    /\ avail = 0
    /\ nArg = [t \in Tids |-> 0]
    /\ nCount = [t \in Tids |-> 0]
    /\ nStartQ = [t \in Tids |-> <<>>]
    /\ nWoken = [t \in Tids |-> <<>>]
    /\ InitProc0
    /\ InitExt0

NextIrq ==
    \/ \E c \in Cpus :
        \/ RunThreadI(c)
        \/ RunIdle(c)
        \/ IdleWake(c)
        \/ StopThread(c)
        \/ TickI(c)
    \/ \E t \in Tids :
        \/ IrqChoose(t)
        \/ YieldCall(t)
        \/ IrqBack(t)
        \/ IrqDone(t)
        \/ Exit(t)

SpecIrq == InitIrq /\ [][NextIrq]_vars

\* C30  When yield_now returns to its caller the interrupt state is the
\* one the caller had when it called: enabled stays enabled, disabled
\* stays disabled, whatever ran on the CPUs in between.
C30_YieldRestoresFlags ==
    \A t \in Tids :
        /\ atRet[t] # "none" => atRet[t] = atCall[t]
        /\ (OnCpu(t) /\ pc[t] = "i_back" /\ ~viaTick[t]) =>
                FlagOf(intr[CpuOf(t)]) = atCall[t]

\* Two threads are back from yield_now, one on each CPU: one had called
\* with interrupts disabled and runs with them disabled, the other had
\* called with them enabled and runs with them enabled; the third thread
\* has made all its calls in the meantime.
C30_Witness ==
    \E t, u, w \in Tids :
        /\ t # u /\ w \notin {t, u} /\ nYield[w] = MaxYields
        /\ OnCpu(t) /\ pc[t] = "i_back" /\ ~viaTick[t]
        /\ atCall[t] = "disabled" /\ atRet[t] = "disabled" /\ ~intr[CpuOf(t)]
        /\ OnCpu(u) /\ pc[u] = "i_back" /\ ~viaTick[u]
        /\ atCall[u] = "enabled" /\ atRet[u] = "enabled" /\ intr[CpuOf(u)]

\* ------------------------------------------- the timer on an idle CPU
\* The condvar programs of Spec with Processor::tick written out: the
\* timer interrupt comes while a thread runs with interrupts enabled or
\* while the CPU waits in enable_and_wfi.

\* ThreadPool::tick(cpu_id, tid): the answers it can give.  With no
\* running thread there is no slice to use up.
pool_tick(tid) == IF tid = None THEN {FALSE} ELSE BOOLEAN

\* Processor::yield_now, lines 93-97: `inner.proc.as_mut().unwrap()`
\* panics on an empty slot
yield_now_unwrap(c) ==
    IF proc[c] = None
    THEN /\ cpuPc' = [cpuPc EXCEPT ![c] = "panic"]
         /\ UNCHANGED <<proc, intr>>
    ELSE yield_now(c)

\* Processor::tick that calls yield_now whatever pool.tick returned.
tick_always_yield(c) ==
    /\ intr[c]
    /\ cpuPc[c] \in {"thread", "idle"}
    /\ cpuPc[c] = "idle" => idleTicks[c] < MaxIdleTicks
    /\ idleTicks' = [idleTicks EXCEPT ![c] = IF cpuPc[c] = "idle" THEN @ + 1 ELSE @]
    /\ yield_now_unwrap(c)
    /\ UNCHANGED <<poolVars, pc, cvVars, notifyVars, procVars, extOld, moreNotTick>>

\* Processor::tick, lines 118-126.  When it returns without a switch the
\* interrupt returns: to the thread, or to Processor::run after
\* enable_and_wfi, which does disable_and_store and loops (lines 77-80).
tick(c) ==
    /\ intr[c]
    /\ cpuPc[c] \in {"thread", "idle"}
    /\ cpuPc[c] = "idle" => idleTicks[c] < MaxIdleTicks
    /\ idleTicks' = [idleTicks EXCEPT ![c] = IF cpuPc[c] = "idle" THEN @ + 1 ELSE @]
    /\ \E need_reschedule \in pool_tick(proc[c]) :
        IF need_reschedule
        THEN yield_now_unwrap(c)
        ELSE IF cpuPc[c] = "idle"
        THEN /\ cpuPc' = [cpuPc EXCEPT ![c] = "loop"]
             /\ intr' = [intr EXCEPT ![c] = FALSE]
             /\ UNCHANGED proc
        ELSE UNCHANGED cpuVars
    /\ UNCHANGED <<poolVars, pc, cvVars, notifyVars, procVars, extOld, moreNotTick>>

NextTick ==
    \/ \E c \in Cpus :
        \/ RunThread(c)
        \/ RunIdle(c)
        \/ StopThread(c)
        \/ tick(c)
    \/ \E t \in Tids : ThreadStep(t)

SpecTick == Init /\ [][NextTick]_vars

\* C31  Processor::tick on an idle CPU (empty slot) does not call
\* yield_now and changes neither the slot nor any thread of the pool: the
\* CPU goes back to the loop of Processor::run, and the unwrap of the
\* empty slot in yield_now is never reached.
C31_IdleTickNoop ==
    /\ [](\A c \in Cpus : cpuPc[c] # "panic")
    /\ [][\A c \in Cpus :
            (cpuPc[c] = "idle" /\ idleTicks'[c] # idleTicks[c]) =>
                /\ proc[c] = None
                /\ cpuPc'[c] = "loop"
                /\ UNCHANGED <<poolVars, proc, pc>>]_vars

\* A CPU has taken a tick while idle and is idle again, its slot empty,
\* while a thread sleeps in the pool and the other CPU runs a thread.
C31_Witness ==
    \E c, d \in Cpus :
        /\ idleTicks[c] >= 1 /\ cpuPc[c] = "idle" /\ proc[c] = None
        /\ cpuPc[d] = "thread"
        /\ \E t \in Tids : status[t] = "Sleeping"

\* ------------------------------ preemption next to a voluntary yield
\* The condvar programs with sys_exit's two calls as two steps, so that
\* the timer can come between manager().exit and yield_now as it can
\* between the park action's sleep and its yield_now.

\* what the timer interrupts: the thread has called park or exit and not
\* yet yield_now
BetweenCallAndYield(t, old) ==
    IF pc[t] \in {"wait_drop_guard", "wait_yield"} THEN "park"
    ELSE IF pc[t] = "exit_yield" THEN "exit"
    ELSE old

\* Processor::tick that puts the thread it preempts back to Ready itself.
TickP_mark_ready(c) ==
    /\ cpuPc[c] = "thread"
    /\ intr[c]
    /\ tickAt' = [tickAt EXCEPT ![proc[c]] = BetweenCallAndYield(proc[c], @)]
    /\ afterStop' = [afterStop EXCEPT ![proc[c]] = "Ready"]
    /\ yield_now(c)
    /\ UNCHANGED <<status, ctxInPool, runq, exitCode, pc, cvVars, notifyVars, procVars,
                   extOld, moreNotPre>>

\* Processor::tick, lines 118-126: pool.tick asks for a reschedule
TickP(c) ==
    /\ cpuPc[c] = "thread"
    /\ intr[c]
    /\ tickAt' = [tickAt EXCEPT ![proc[c]] = BetweenCallAndYield(proc[c], @)]
    /\ yield_now(c)
    /\ UNCHANGED <<poolVars, pc, cvVars, notifyVars, procVars, extOld, moreNotPre>>

\* thread::park_action, second half: processor().yield_now()
park_yieldP(t, to) ==
    /\ Goto(t, "wait_yield", to)
    /\ yield_now(CpuOf(t))
    /\ UNCHANGED <<poolVars, cvVars, notifyVars, procVars, preVars, extOld, moreNotPre>>

\* Condvar::wait
WaitP(t) ==
    \/ add_to_wait_queue(t, "wait_sleep")
    \/ park_sleepS(t, "wait_drop_lock")
    \/ wait_drop_lock(t, "wait_drop_guard")
    \/ wait_drop_guard(t, "wait_yield")
    \/ park_yieldP(t, "wait_relock")
    \/ wait_relock(t, "w_check")

\* sys_exit, line 269: processor().manager().exit(tid, exit_code)
sys_exit_mark(t) ==
    /\ Goto(t, "exit", "exit_yield")
    /\ pool_exit(t, exitArg[t])
    /\ called' = [called EXCEPT ![t] = "exit"]
    /\ UNCHANGED <<cpuVars, cvVars, notifyVars, procVars, extOld, moreNotStop>>

\* sys_exit, lines 270-271: processor().yield_now(); unreachable!()
sys_exit_yield(t) ==
    /\ Goto(t, "exit_yield", "unreachable")
    /\ yield_now(CpuOf(t))
    /\ UNCHANGED <<poolVars, cvVars, notifyVars, procVars, preVars, extOld, moreNotPre>>

NextPreempt ==
    \/ \E c \in Cpus :
        \/ RunThreadS(c)
        \/ RunIdle(c)
        \/ IdleWake(c)
        \/ StopThread(c)
        \/ TickP(c)
    \/ \E t \in Tids :
        \/ WLock(t)
        \/ WCheck(t)
        \/ WUnlock(t)
        \/ WaitP(t)
        \/ NSet(t)
        \/ notify_one(t, "n_unlock")
        \/ notify_all(t, "n_unlock")
        \/ notify_n(t, "n_unlock")
        \/ NUnlock(t)
        \/ sys_exit_mark(t)
        \/ sys_exit_yield(t)

SpecPreempt == Init /\ [][NextPreempt]_vars

\* pool.stop hands the context of the thread in the slot back, once
StoppedOnce(c) ==
    /\ ~ctxInPool[proc[c]] /\ ctxInPool'[proc[c]]
    /\ status[proc[c]] = "Running" /\ status'[proc[c]] # "Running"
    /\ proc'[c] = None

QueuedIn(t) == {cv \in Cvs : \E i \in 1..Len(cvq[cv]) : cvq[cv][i] = <<t, gen[t]>>}

\* the condvars t's wait_any call has taken so far (lines 48-52)
TakenBy(t) ==
    IF pc[t] = "any_enq2" THEN {order[t][1]}
    ELSE IF pc[t] \in {"wait_sleep", "any_drop1"} THEN {order[t][1], order[t][2]}
    ELSE {}

\* the step pops t's token from the front of cv's queue
PopsTokenOf(t, cv) == PopStep(cv) /\ Head(cvq[cv]) = <<t, gen[t]>>

\* t is asleep or has marked itself Sleeping and not yet left its CPU
Asleep(t) == status[t] = "Sleeping" \/ (status[t] = "Running" /\ afterStop[t] = "Sleeping")

\* C33: from its first enqueue until its park action runs a wait_any caller
\* holds the lock of every queue it has pushed its token to, and the token
\* is in each of them; so no notify pops the token before the caller has
\* marked itself Sleeping with the token in every listed queue; the caller
\* marks itself Sleeping once per call; and a notify that pops the token
\* from any of the queues afterwards leaves the caller awake.
C33_WaitAnyNoLostWakeup ==
    /\ [](\A t \in Tids : \A cv \in TakenBy(t) : cvLock[cv] = t /\ cv \in QueuedIn(t))
    /\ [][\A t \in Tids : \A cv \in Cvs :
            PopsTokenOf(t, cv) =>
                /\ pc[t] \notin {"any_enq1", "any_enq2", "wait_sleep", "any_drop1"}
                /\ ~Asleep(t)']_vars
    /\ [][\A t \in Tids :
            /\ (afterStop[t] # "Sleeping" /\ afterStop'[t] = "Sleeping") =>
                    (pc[t] = "wait_sleep" /\ pc'[t] = "any_drop1"
                     /\ QueuedIn(t) = {order[t][1], order[t][2]})
            /\ (pc[t] # "wait_sleep" /\ pc'[t] = "wait_sleep") => pc[t] = "any_enq2"
            /\ (pc[t] # "any_enq1" /\ pc'[t] = "any_enq1") => gen'[t] = gen[t] + 1]_vars

\* a notify caught the waiter between the release of its first queue lock
\* and its yield; the waiter has returned from wait_any and runs, and its
\* token is still in the other queue
C33_Witness ==
    /\ Len(log) >= 1 /\ log[1] = "Parking"
    /\ pc[Waiter0] = "exit" /\ status[Waiter0] = "Running"
    /\ QueuedIn(Waiter0) # {}

\* --------------------------------------------------- sys_wait4: ECHILD
\* The parent of SpecProc, whose sys_wait4 may also name a pid that is no
\* child of it.
OtherPid == 3

\* the parent's next syscall: sys_wait4(-1), sys_wait4(pid) for the child's
\* pid or for another one, or sys_kill(child, sig)
ParentCallW(t) ==
    /\ OnCpu(t)
    /\ pc[t] = "p_next"
    /\ IF nCalls < MaxCalls
       THEN /\ nCalls' = nCalls + 1
            /\ \/ /\ pc' = [pc EXCEPT ![t] = "w4_check"]
                  /\ w4Target' \in {AnyChild, ChildPid, OtherPid}
                  /\ UNCHANGED exitArg
               \/ /\ pc' = [pc EXCEPT ![t] = "kill_exit_all"]
                  /\ \E sig \in Sigs : exitArg' = [exitArg EXCEPT ![t] = sig]
                  /\ UNCHANGED w4Target
       ELSE /\ pc' = [pc EXCEPT ![t] = "exit"]
            /\ UNCHANGED <<nCalls, w4Target, exitArg>>
    /\ UNCHANGED <<poolVars, cpuVars, cvVars, notifyVars, threads, exitCodeMap, isLast,
                   w4Ret, extVars>>

WaitStep(t) ==
    \/ sys_fork(t)
    \/ sys_clone(t)
    \/ ParentCallW(t)
    \/ sys_wait4(t)
    \/ _wait(t)
    \/ sys_exit_retain(t)
    \/ sys_exit_notify(t)
    \/ sys_kill_exit(t)
    \/ sys_kill_notify(t)
    \/ Exit(t)

NextWait ==
    \/ \E c \in Cpus : CpuStep(c)
    \/ \E t \in Tids : WaitStep(t)

SpecWait == InitProc /\ [][NextWait]_vars

\* the pids of the caller's children whose Weak reference still upgrades
LiveChildren == IF ProcAlive THEN {ChildPid} ELSE {}

\* the live children the target stands for (lines 101-107)
MatchingLive == IF w4Target = AnyChild THEN LiveChildren ELSE LiveChildren \cap {w4Target}

\* the recorded exit codes the target stands for (lines 75-82)
MatchingRecorded ==
    IF w4Target = AnyChild THEN exitCodeMap ELSE {e \in exitCodeMap : e[1] = w4Target}

\* the parent's sys_wait4 takes one turn of its loop
Wait4Turn == pc[Parent] = "w4_check" /\ pc'[Parent] # "w4_check"

\* C34: a turn of sys_wait4 returns ECHILD exactly when no recorded exit
\* code and no live child matches the target, and then it changes
\* child_exit_code not at all and does not block; it blocks only when a
\* live child matches.
C34_EchildIffNoChild ==
    [][Wait4Turn =>
        /\ (w4Ret' = Append(w4Ret, <<ECHILD, 0>>))
              <=> (MatchingRecorded = {} /\ MatchingLive = {})
        /\ (w4Ret' = Append(w4Ret, <<ECHILD, 0>>))
              => (exitCodeMap' = exitCodeMap /\ pc'[Parent] = "p_next")
        /\ pc'[Parent] = "wait_enq" => MatchingLive # {}
        /\ MatchingRecorded # {} => w4Ret'[Len(w4Ret')][1] # ECHILD]_vars

\* sys_wait4 for a pid that is no child has returned ECHILD while the child
\* was alive and its exit code was not recorded, and a later sys_wait4(-1)
\* has returned ECHILD after the child was reaped
C34_Witness ==
    /\ Len(w4Ret) = 1 /\ w4Ret[1][1] = ECHILD
    /\ w4Target = OtherPid /\ ProcAlive /\ exitCodeMap = {}
    /\ pc[Parent] = "p_next"

\* sys_wait4(-1) has returned ECHILD: the child was reaped before
C34_WitnessReaped ==
    /\ Len(w4Ret) = 2 /\ w4Ret[1][1] = ChildPid /\ w4Ret[2][1] = ECHILD
    /\ w4Target = AnyChild /\ ~ProcAlive

\* ------------------------------------------------ notify_all drains
\* C35: the notifier holds the mutex the waiters enqueue under, so no wait
\* runs beside its notify_all.  After i turns of the loop the call has
\* unparked the first i handles of the queue it found, in that order, and
\* the queue holds the rest; it ends after as many pops as there were
\* handles, with the queue empty and none of the handles' threads asleep.
C35_NotifyAllDrains ==
    \A t \in Tids :
        LET k == Len(nStartQ[t])
        IN  /\ pc[t] = "notify_all" =>
                  /\ nCount[t] <= k
                  /\ nWoken[t] = SubSeq(nStartQ[t], 1, nCount[t])
                  /\ waitq = SubSeq(nStartQ[t], nCount[t] + 1, k)
            /\ (pc[t] = "n_unlock" /\ nArg[t] = All) =>
                  /\ nCount[t] = k
                  /\ nWoken[t] = nStartQ[t]
                  /\ waitq = <<>>
                  /\ \A i \in 1..k : ~MarkedSleeping(nStartQ[t][i])

\* notify_all has returned after draining a queue of two handles
C35_Witness ==
    \E t \in Tids :
        /\ pc[t] = "n_unlock" /\ nArg[t] = All
        /\ Len(nStartQ[t]) = 2 /\ nCount[t] = 2 /\ waitq = <<>>

\* ------------------------------------------------ get_ephemeral_port
\* TcpSocketState::bind calls get_ephemeral_port with no lock held, so
\* the calls of two CPUs can overlap; the function reads and writes its
\* static mut without synchronisation, one memory access per step here.
PortMin == 49152
PortMax == 65535
U16 == 65536

\* what rand::rand() can return (an unsigned integer)
RandValues == {0, 1, 16381, 16382, 16383, 16384, 32767}

\* line 558: (49152 + rand::rand() % (65536 - 49152)) as u16
Seed(r) == (PortMin + (r % (U16 - PortMin))) % U16

\* a syscall on CPU c calls get_ephemeral_port
PortCall(c) ==
    /\ portPc[c] = "out"
    /\ nPortCalls < MaxPortCalls
    /\ nPortCalls' = nPortCalls + 1
    /\ portPc' = [portPc EXCEPT ![c] = "seed"]
    /\ portOverlap' = (portOverlap \/ \E d \in Cpus : portPc[d] # "out")
    /\ UNCHANGED <<EPHEMERAL_PORT, portRet>>

\* lines 557-559: if EPHEMERAL_PORT == 0 { EPHEMERAL_PORT = seed }
PortSeed(c) ==
    /\ portPc[c] = "seed"
    /\ portPc' = [portPc EXCEPT ![c] = "test"]
    /\ IF EPHEMERAL_PORT = 0
       THEN \E r \in RandValues : EPHEMERAL_PORT' = Seed(r)
       ELSE UNCHANGED EPHEMERAL_PORT
    /\ UNCHANGED <<portRet, portOverlap, nPortCalls>>

\* lines 560-561: if EPHEMERAL_PORT == 65535 { EPHEMERAL_PORT = 49152 }
PortTest(c) ==
    /\ portPc[c] = "test"
    /\ IF EPHEMERAL_PORT = PortMax
       THEN /\ EPHEMERAL_PORT' = PortMin
            /\ portPc' = [portPc EXCEPT ![c] = "result"]
       ELSE /\ UNCHANGED EPHEMERAL_PORT
            /\ portPc' = [portPc EXCEPT ![c] = "add"]
    /\ UNCHANGED <<portRet, portOverlap, nPortCalls>>

\* lines 562-563: else { EPHEMERAL_PORT = EPHEMERAL_PORT + 1 }: u16
\* addition; at 65535 a build with overflow checks panics and one without
\* wraps to 0
PortAdd(c) ==
    /\ portPc[c] = "add"
    /\ \/ /\ EPHEMERAL_PORT' = (EPHEMERAL_PORT + 1) % U16
          /\ portPc' = [portPc EXCEPT ![c] = "result"]
       \/ /\ EPHEMERAL_PORT = PortMax
          /\ portPc' = [portPc EXCEPT ![c] = "panic"]
          /\ UNCHANGED EPHEMERAL_PORT
    /\ UNCHANGED <<portRet, portOverlap, nPortCalls>>

\* line 565: the value of the block is EPHEMERAL_PORT
PortResult(c) ==
    /\ portPc[c] = "result"
    /\ portRet' = Append(portRet, EPHEMERAL_PORT)
    /\ portPc' = [portPc EXCEPT ![c] = "out"]
    /\ UNCHANGED <<EPHEMERAL_PORT, portOverlap, nPortCalls>>

get_ephemeral_port(c) ==
    \/ PortCall(c)
    \/ PortSeed(c)
    \/ PortTest(c)
    \/ PortAdd(c)
    \/ PortResult(c)

NextPort ==
    \E c \in Cpus :
        /\ get_ephemeral_port(c)
        /\ UNCHANGED <<poolVars, cpuVars, pc, cvVars, notifyVars, procVars, extOld,
                       moreNotPort>>

SpecPort == Init /\ [][NextPort]_vars

\* the port after p
NextPortOf(p) == IF p = PortMax THEN PortMin ELSE p + 1

\* calls made one after the other return a seed's successor first and
\* then each the successor of the value returned before it
Successive ==
    /\ Len(portRet) >= 1 => \E r \in RandValues : portRet[1] = NextPortOf(Seed(r))
    /\ \A i \in 1..(Len(portRet) - 1) : portRet[i + 1] = NextPortOf(portRet[i])

\* C36: every value get_ephemeral_port has returned lies in 49152..=65535
\* (never 0, never below 49152); calls made one after the other return
\* successive ports, 65535 followed by 49152, the first of them the seed
\* plus one (49152 for the seed 65535).
C36_PortInRange ==
    /\ \A i \in 1..Len(portRet) : portRet[i] \in PortMin..PortMax
    /\ ~portOverlap => Successive

\* calls that do not overlap return ports in range, in succession, and
\* none of them panics
C36_SequentialPorts ==
    ~portOverlap =>
        /\ \A i \in 1..Len(portRet) : portRet[i] \in PortMin..PortMax
        /\ Successive
        /\ \A c \in Cpus : portPc[c] # "panic"

\* three calls one after the other have wrapped from 65535 to 49152
C36_Witness ==
    /\ ~portOverlap
    /\ portRet = <<PortMax, PortMin, PortMin + 1>>

\* ------------------------------------------- handles of returned waiters
\* t has returned from wait_any: it runs the code after the call, or has
\* run it and exited
Returned(t) == pc[t] = "unreachable" \/ (pc[t] = "exit" /\ OnCpu(t))

\* the threads with a token in cv's queue that no notify has woken yet
GenuineWaiters(cv) ==
    {t \in Tids : Asleep(t) /\ \E i \in 1..Len(cvq[cv]) : cvq[cv][i] = <<t, gen[t]>>}

\* C37: every handle in a wait queue is the handle of a thread inside its
\* wait call on that condvar (a thread that has returned has no handle
\* left in any queue), and a notify_one on a queue that holds the handle of
\* such a thread pops the handle of one.
C37_QueuedMeansWaiting ==
    /\ [](\A cv \in Cvs : \A i \in 1..Len(cvq[cv]) : ~Returned(cvq[cv][i][1]))
    /\ [][\A cv \in Cvs :
            (PopStep(cv) /\ GenuineWaiters(cv) # {})
                => Head(cvq[cv])[1] \in GenuineWaiters(cv)]_vars

\* the second half alone: a notify_one on a queue with a thread waiting in
\* it pops the handle of a waiting thread
C37_NotifyWakesWaiter ==
    [][\A cv \in Cvs :
            (PopStep(cv) /\ GenuineWaiters(cv) # {})
                => Head(cvq[cv])[1] \in GenuineWaiters(cv)]_vars

\* ------------------------------------------- wait_any calls side by side
\* A CPU that spins for a wait-queue lock with interrupts disabled takes
\* the lock once it is free.
FairSpecAny == SpecAny /\ \A t \in Tids : WF_vars(wait_any_enq(t))

\* C38: wait_any calls made side by side on the same condvars in any
\* order do not deadlock: a caller that holds its first wait-queue lock
\* comes to hold all of them and to park.
C38_WaitAnyCallsPark ==
    \A t \in Tids : (pc[t] = "any_enq2") ~> (pc[t] = "wait_sleep")

\* ------------------------------------------- reaping and thread status
\* the parent's sys_wait4 returns the pid of a child in this step
Wait4ReturnsPid ==
    /\ Len(w4Ret') = Len(w4Ret) + 1
    /\ w4Ret'[Len(w4Ret')][1] = ChildPid

\* C39: when sys_wait4 returns the child's pid every thread of the child
\* is Exited in the pool: none is Ready, Running or Sleeping.
C39_ReapedChildExited ==
    [][Wait4ReturnsPid =>
        \A u \in ChildTids : status[u] \in {"Unused", "Exited"}]_vars

\* ------------------------------------- invoke_on_allcpu that blocks
\* One thread calls invoke_on_allcpu(f, arg, true); its `sem` is the
\* Semaphore over Mutex + Condvar (`avail` the count, `waitq` the queue of
\* its condvar), so the caller parks in acquire and its CPU goes on to run
\* the other thread or to idle.  The semaphore is released by the IPI
\* handlers, in interrupt context: its lock disables interrupts on the CPU
\* of its holder.
IpiCaller == 1

\* no lock that disables interrupts is held by the thread running on c
NoIrqLockHeldOn(c) == proc[c] = None \/ (mutex # proc[c] /\ wqLock # proc[c])

\* lines 72-74: sem.acquire(): lock, test the count
IpiSemLock(t) ==
    /\ OnCpu(t)
    /\ pc[t] = "ipi_acquire"
    /\ mutex = None
    /\ mutex' = t
    /\ SemTest(t)
    /\ UNCHANGED <<poolVars, cpuVars, wqLock, waitq, notifyVars, procVars, extVars>>

\* lines 71-75: acquire returns (its guard goes); the next iteration of
\* `for _ in 0..cpu_count`, or the call returns
IpiAcqRet(t) ==
    /\ OnCpu(t)
    /\ pc[t] = "sem_acq_ret"
    /\ mutex' = None
    /\ cpu_count' = [cpu_count EXCEPT ![t] = @ - 1]
    /\ pc' = [pc EXCEPT ![t] = IF cpu_count[t] = 1 THEN "exit" ELSE "ipi_acquire"]
    /\ UNCHANGED <<poolVars, cpuVars, wqLock, waitq, avail, notifyVars, procVars,
                   extNotIpi, evq, cur, ipiPend, ipiRet, sem, ipiWait, ipiK, enqLog,
                   ranLog>>

IpiCallerStep(t) ==
    \/ IpiEnq(t)
    \/ IpiSend(t)
    \/ IpiSemLock(t)
    \/ SemWait(t)
    \/ SemCheck(t)
    \/ IpiAcqRet(t)
    \/ Exit(t)

\* the IPIFuncCall interrupt is taken when the CPU has interrupts enabled
IpiEnterW(c) == NoIrqLockHeldOn(c) /\ IpiEnter(c)

\* the timer interrupt likewise
TickW(c) == NoIrqLockHeldOn(c) /\ Tick(c)

\* InvokeEvent::call, line 35: self.done_semaphore.release(): lock,
\* count += 1, cvar.notify_one(), unlock, with interrupts disabled
IpiReleaseW(c) ==
    /\ cpuPc[c] = "ipi_release"
    /\ mutex = None
    /\ wqLock = None
    /\ avail' = avail + 1
    /\ IF waitq # <<>>
       THEN /\ waitq' = Tail(waitq)
            /\ pool_wakeup(Head(waitq))
       ELSE UNCHANGED <<waitq, poolVars>>
    /\ cur' = [cur EXCEPT ![c] = Tail(@)]
    /\ cpuPc' = [cpuPc EXCEPT ![c] = "ipi_call"]
    /\ UNCHANGED <<proc, intr, pc, mutex, wqLock, notifyVars, procVars,
                   extNotIpi, evq, ipiPend, ipiRet, sem, ipiWait, ipiK, cpu_count,
                   enqLog, ranLog>>

\* the caller and one more thread are Ready
InitIpiSem ==
    /\ status = [t \in Tids |-> IF t \in Callers THEN "Ready" ELSE "Unused"]
    /\ afterStop = [t \in Tids |-> "Ready"]
    /\ ctxInPool = [t \in Tids |-> t \in Callers]
    /\ runq \in {<<1, 2>>, <<2, 1>>}
    /\ exitCode = [t \in Tids |-> 0]
    /\ proc = [c \in Cpus |-> None]
    /\ cpuPc = [c \in Cpus |-> "loop"]
    /\ intr = [c \in Cpus |-> FALSE]
    /\ pc = [t \in Tids |-> IF t = IpiCaller THEN "ipi_enq" ELSE "exit"]
    /\ mutex = None
    /\ wqLock = None
    /\ waitq = <<>>
    /\ avail = 0
    /\ nArg = [t \in Tids |-> 0]
    /\ nCount = [t \in Tids |-> 0]
    /\ nStartQ = [t \in Tids |-> <<>>]
    /\ nWoken = [t \in Tids |-> <<>>]
    /\ InitProc0
    /\ InitAny0
    /\ InitRR0
    /\ InitSem0
    /\ InitChan0
    /\ InitMore0
    /\ evq = [c \in Cpus |-> <<>>]
    /\ cur = [c \in Cpus |-> <<>>]
    /\ ipiPend = [c \in Cpus |-> FALSE]
    /\ ipiRet = [c \in Cpus |-> "thread"]
    /\ sem = [t \in Tids |-> 0]
    /\ ipiWait = [t \in Tids |-> t = IpiCaller]
    /\ ipiK = [t \in Tids |-> 1]
    /\ cpu_count = [t \in Tids |-> 0]
    /\ enqLog = [c \in Cpus |-> <<>>]
    /\ ranLog = [c \in Cpus |-> <<>>]

NextIpiSem ==
    \/ \E c \in Cpus : RunThread(c)
    \/ \E c \in Cpus : RunIdle(c)
    \/ \E c \in Cpus : IdleWake(c)
    \/ \E c \in Cpus : StopThread(c)
    \/ \E c \in Cpus : TickW(c)
    \/ \E c \in Cpus : IpiEnterW(c)
    \/ \E c \in Cpus : IpiCall(c)
    \/ \E c \in Cpus : IpiReleaseW(c)
    \/ \E c \in Cpus : IpiReturn(c)
    \/ \E t \in Tids : IpiCallerStep(t)

SpecIpiSem == InitIpiSem /\ [][NextIpiSem]_vars

\* The scheduler loop of every CPU goes on; a pending IPI is taken once
\* the CPU enables interrupts, and its handler runs to its end; a thread
\* that is scheduled again and again goes on.
FairSpecIpiSem ==
    /\ SpecIpiSem
    /\ \A c \in Cpus : WF_vars(RunThread(c) \/ RunIdle(c) \/ IdleWake(c) \/ StopThread(c))
    /\ \A c \in Cpus : SF_vars(IpiEnterW(c))
    /\ \A c \in Cpus : WF_vars(IpiCall(c) \/ IpiReleaseW(c) \/ IpiReturn(c))
    /\ \A t \in Tids : SF_vars(IpiCallerStep(t))

\* C40: invoke_on_allcpu(f, arg, true) returns when every CPU services
\* its IPI: the caller's own CPU is one of the targets and runs its event
\* while the caller is blocked in acquire, and when the call has returned
\* each of its cpu_count acquires has been matched by a release.
C40_WaitingCallReturns ==
    /\ <>(pc[IpiCaller] \in {"exit", "unreachable"})
    /\ [](pc[IpiCaller] \in {"exit", "unreachable"} =>
            /\ avail = 0 /\ cpu_count[IpiCaller] = 0
            /\ \A c \in Cpus : ranLog[c] = <<IpiCaller>>)

\* the caller is parked in acquire, one CPU has run the event and the
\* other is about to release the semaphore for it
C40_Witness ==
    /\ status[IpiCaller] = "Sleeping" /\ pc[IpiCaller] = "wait_relock"
    /\ IpiCaller \in Range(waitq)
    /\ \E c, d \in Cpus :
        /\ c # d
        /\ cpuPc[c] = "ipi_release" /\ Head(cur[c]) = IpiCaller
        /\ ranLog[d] = <<IpiCaller>> /\ cur[d] = <<>>

====
